---- MODULE Spec2Model ----
(***************************************************************************)
(* A model of the D language pipeline: the AST (ast.rs), the semantic      *)
(* checker and the optimizer (analyzer.rs) and the tree-walking            *)
(* interpreter (interpreter.rs).  A program is drawn from a bounded family *)
(* and driven through check, interpret, optimize, optimize again and       *)
(* interpret, the way main.rs and the test helpers drive it.               *)
(*                                                                         *)
(* Real literals and values (f64) are not part of the bounded programs.    *)
(* Integers stay far inside i64, so i64 arithmetic is plain arithmetic.    *)
(***************************************************************************)
EXTENDS Integers, Sequences, FiniteSets, TLC

VARIABLES source, input, program, pc, checker, rechecked, modified, changed, returned,
          before, after

vars ==
    <<source, input, program, pc, checker, rechecked, modified, changed, returned, before,
      after>>

-----------------------------------------------------------------------------
(* Bounds of the model.                                                    *)

\* Loop iterations plus function calls one interpret run may take before the
\* model reports it as still running.
MaxSteps == 6

\* Integer literals of the generated programs range over 0..MaxLit.
MaxLit == 2

-----------------------------------------------------------------------------
(* ast.rs: Option<T> is a sequence of length 0 or 1.                       *)

NoOpt == <<>>
Some(x) == <<x>>

(* ast.rs: Expr *)
Integer(n) == [tag |-> "Integer", n |-> n]
Bool(b) == [tag |-> "Bool", b |-> b]
None == [tag |-> "None"]
String(s) == [tag |-> "String", s |-> s]
Ident(name) == [tag |-> "Ident", name |-> name]
Range(low, high) == [tag |-> "Range", low |-> low, high |-> high]
Binary(left, op, right) == [tag |-> "Binary", left |-> left, op |-> op, right |-> right]
Unary(op, expr) == [tag |-> "Unary", op |-> op, expr |-> expr]
Call(callee, args) == [tag |-> "Call", callee |-> callee, args |-> args]
Index(target, index) == [tag |-> "Index", target |-> target, index |-> index]
Array(elems) == [tag |-> "Array", elems |-> elems]
Func(params, body) == [tag |-> "Func", params |-> params, body |-> body]
Member(target, field) == [tag |-> "Member", target |-> target, field |-> field]
Tuple(elems) == [tag |-> "Tuple", elems |-> elems]

\* Expr::Real(f64) and Value::Real(f64).  The reals of the model are the
\* rationals num / den with den > 0, kept in lowest terms; the programs of
\* the model only produce dyadic ones, which f64 represents exactly.
Real(num, den) ==
    LET Divides(d) == num % d = 0 /\ den % d = 0
        g == CHOOSE d \in 1..den : Divides(d) /\ \A e \in (d + 1)..den : ~Divides(e)
    IN [tag |-> "Real", num |-> num \div g, den |-> den \div g]

(* ast.rs: TupleElement; name is an Option *)
TupleElement(name, value) == [name |-> name, value |-> value]

(* ast.rs: FuncBody *)
BodyExpr(expr) == [kind |-> "Expr", expr |-> expr]
BodyBlock(stmts) == [kind |-> "Block", stmts |-> stmts]

(* ast.rs: Stmt *)
VarDecl(name, init) == [tag |-> "VarDecl", name |-> name, init |-> init]
Assign(target, value) == [tag |-> "Assign", target |-> target, value |-> value]
PrintStmt(args) == [tag |-> "Print", args |-> args]
If(cond, then_branch, else_branch) ==
    [tag |-> "If", cond |-> cond, then_branch |-> then_branch, else_branch |-> else_branch]
While(cond, body) == [tag |-> "While", cond |-> cond, body |-> body]
For(var, iterable, body) == [tag |-> "For", var |-> var, iterable |-> iterable, body |-> body]
Return(expr) == [tag |-> "Return", expr |-> expr]
Exit == [tag |-> "Exit"]
ExprStmt(expr) == [tag |-> "Expr", expr |-> expr]

-----------------------------------------------------------------------------
(* interpreter.rs: Value.  Integer, Real, Bool, String, None and Array     *)
(* values are the records of the literals above; a function value carries  *)
(* its captured environment; a tuple value is the HashMap from its keys to *)
(* its values.                                                             *)

TupleValue(fields) == [tag |-> "Tuple", fields |-> fields]

Function(params, body, closure) ==
    [tag |-> "Function", params |-> params, body |-> body, closure |-> closure]

\* impl PartialEq for Value
RECURSIVE ValueEq(_, _)
ValueEq(a, b) ==
    CASE a.tag = "Integer" /\ b.tag = "Integer" -> a.n = b.n
      [] a.tag = "Real" /\ b.tag = "Real" -> a.num = b.num /\ a.den = b.den
      [] a.tag = "Bool" /\ b.tag = "Bool" -> a.b = b.b
      [] a.tag = "String" /\ b.tag = "String" -> a.s = b.s
      [] a.tag = "None" /\ b.tag = "None" -> TRUE
      [] a.tag = "Array" /\ b.tag = "Array" ->
            /\ Len(a.elems) = Len(b.elems)
            /\ \A i \in 1..Len(a.elems) : ValueEq(a.elems[i], b.elems[i])
      [] a.tag = "Tuple" /\ b.tag = "Tuple" ->
            /\ DOMAIN a.fields = DOMAIN b.fields
            /\ \A k \in DOMAIN a.fields : ValueEq(a.fields[k], b.fields[k])
      [] OTHER -> FALSE

(* interpreter.rs: Environment.  The chain is a sequence of frames, the    *)
(* innermost (self.variables) first, each parent after it.                 *)

EmptyFrame == [n \in {} |-> None]
EnvNew == <<EmptyFrame>>
EnvNewWithParent(parent) == <<EmptyFrame>> \o parent
EnvDefine(env, name, value) == [env EXCEPT ![1] = (name :> value) @@ env[1]]

\* The index of the innermost frame that holds name, 0 when no frame does.
EnvFrameOf(env, name) ==
    IF \E i \in 1..Len(env) : name \in DOMAIN env[i]
    THEN CHOOSE i \in 1..Len(env) :
            /\ name \in DOMAIN env[i]
            /\ \A j \in 1..(i - 1) : name \notin DOMAIN env[j]
    ELSE 0

\* Environment::get: Some(value) or None
EnvGet(env, name) ==
    IF EnvFrameOf(env, name) = 0 THEN NoOpt ELSE Some(env[EnvFrameOf(env, name)][name])

\* Environment::assign: the chain after the call and the bool it returns
EnvAssign(env, name, value) ==
    IF EnvFrameOf(env, name) = 0
    THEN [env |-> env, found |-> FALSE]
    ELSE [env |-> [env EXCEPT ![EnvFrameOf(env, name)][name] = value], found |-> TRUE]

-----------------------------------------------------------------------------
(* interpreter.rs: InterpreterResult.  A result is a record with the       *)
(* signal sig and, when the signal is Ok, the value val; Return and Exit   *)
(* are signals like the errors, as in InterpreterError.  The signal        *)
(* Running is the model's: the run used up MaxSteps and is still going.    *)

Ok == [kind |-> "Ok"]
Err(e) == [kind |-> "Err", err |-> e]
IndexOutOfBounds(index, size) ==
    [kind |-> "Err", err |-> "IndexOutOfBounds", index |-> index, size |-> size]
ReturnSig(value) == [kind |-> "Return", val |-> value]
ExitSig == [kind |-> "Exit"]
Running == [kind |-> "Running"]

OkVal(v) == [sig |-> Ok, val |-> v]
Fail(sig) == [sig |-> sig]

\* Integer::to_string
IntToString(n) == ToString(n)

\* Vec<String>::join
RECURSIVE Join(_, _)
Join(strs, sep) ==
    IF Len(strs) = 0 THEN ""
    ELSE IF Len(strs) = 1 THEN strs[1]
    ELSE strs[1] \o sep \o Join(Tail(strs), sep)

\* f64 to_string of num / den, den = 2^k with k <= 8: the integer part, and
\* when den > 1 a point and the k decimal digits of the fraction
RealToString(num, den) ==
    LET abs == IF num < 0 THEN -num ELSE num
        k == CHOOSE e \in 0..8 : 2^e = den
        frac == (abs % den) * 5^k
        digits == CHOOSE d \in 1..8 : 10^(d - 1) <= frac /\ frac < 10^d
        zeros == <<"", "0", "00", "000", "0000", "00000", "000000", "0000000">>
    IN (IF num < 0 THEN "-" ELSE "") \o IntToString(abs \div den)
         \o (IF den = 1 THEN ""
             ELSE "." \o zeros[k - digits + 1] \o IntToString(frac))

RECURSIVE value_to_string(_)
value_to_string(val) ==
    CASE val.tag = "Integer" -> IntToString(val.n)
      [] val.tag = "Real" -> RealToString(val.num, val.den)
      [] val.tag = "Tuple" ->
            \* pairs.sort() orders the "key: value" strings; the keys of the
            \* model's tuples are single characters, digits before letters
            LET KeyOrder == <<"1", "2", "3", "4", "5", "6", "7", "8", "9",
                              "a", "b", "c", "d", "e", "f", "g", "h">>
                keys == SelectSeq(KeyOrder, LAMBDA k : k \in DOMAIN val.fields)
            IN "{" \o Join([i \in 1..Len(keys) |->
                              keys[i] \o ": " \o value_to_string(val.fields[keys[i]])],
                           ", ") \o "}"
      [] val.tag = "Bool" -> IF val.b THEN "true" ELSE "false"
      [] val.tag = "String" -> val.s
      [] val.tag = "None" -> "none"
      [] val.tag = "Array" ->
            "[" \o Join([i \in 1..Len(val.elems) |-> value_to_string(val.elems[i])], ", ") \o "]"
      [] val.tag = "Function" -> "<function>"

value_to_bool(val) ==
    CASE val.tag = "Bool" -> val.b
      [] val.tag = "Integer" -> val.n # 0
      [] val.tag = "Real" -> val.num # 0
      [] val.tag = "Tuple" -> DOMAIN val.fields # {}
      [] val.tag = "None" -> FALSE
      [] val.tag = "String" -> val.s # ""
      [] val.tag = "Array" -> Len(val.elems) # 0
      [] val.tag = "Function" -> TRUE

\* Division rounded toward minus infinity
FloorDiv(a, b) == a \div b

\* i64 division truncates toward zero
TruncDiv(a, b) ==
    IF (a >= 0) = (b >= 0)
    THEN (IF a >= 0 THEN a ELSE -a) \div (IF b >= 0 THEN b ELSE -b)
    ELSE -((IF a >= 0 THEN a ELSE -a) \div (IF b >= 0 THEN b ELSE -b))

\* value_to_number: the f64 of an Integer or a Real
value_to_number(val) ==
    CASE val.tag = "Integer" -> OkVal(Real(val.n, 1))
      [] val.tag = "Real" -> OkVal(val)
      [] OTHER -> Fail(Err("TypeError"))

\* Both operands are numbers and at least one is a Real
RealOperands(left, right) ==
    /\ left.tag \in {"Integer", "Real"} /\ right.tag \in {"Integer", "Real"}
    /\ "Real" \in {left.tag, right.tag}

add_values(left, right) ==
    CASE left.tag = "Integer" /\ right.tag = "Integer" -> OkVal(Integer(left.n + right.n))
      [] RealOperands(left, right) ->
            LET a == value_to_number(left).val
                b == value_to_number(right).val
            IN OkVal(Real(a.num * b.den + b.num * a.den, a.den * b.den))
      [] left.tag = "String" /\ right.tag = "String" -> OkVal(String(left.s \o right.s))
      [] left.tag = "String" /\ right.tag # "String" ->
            OkVal(String(left.s \o value_to_string(right)))
      [] left.tag # "String" /\ right.tag = "String" ->
            OkVal(String(value_to_string(left) \o right.s))
      [] OTHER -> Fail(Err("TypeError"))

sub_values(left, right) ==
    IF left.tag = "Integer" /\ right.tag = "Integer"
    THEN OkVal(Integer(left.n - right.n))
    ELSE IF RealOperands(left, right)
    THEN LET a == value_to_number(left).val
             b == value_to_number(right).val
         IN OkVal(Real(a.num * b.den - b.num * a.den, a.den * b.den))
    ELSE Fail(Err("TypeError"))

mul_values(left, right) ==
    IF left.tag = "Integer" /\ right.tag = "Integer"
    THEN OkVal(Integer(left.n * right.n))
    ELSE IF RealOperands(left, right)
    THEN LET a == value_to_number(left).val
             b == value_to_number(right).val
         IN OkVal(Real(a.num * b.num, a.den * b.den))
    ELSE Fail(Err("TypeError"))

\* div_values testing only an Integer divisor under an Integer dividend
\* against zero; the other divisions by zero yield the f64 infinity
div_values_integer_zero_only(left, right) ==
    IF left.tag = "Integer" /\ right.tag = "Integer"
    THEN IF right.n = 0 THEN Fail(Err("DivisionByZero"))
         ELSE OkVal(Integer(TruncDiv(left.n, right.n)))
    ELSE IF RealOperands(left, right)
    THEN LET a == value_to_number(left).val
             b == value_to_number(right).val
         IN IF b.num = 0 THEN OkVal(String("inf"))
            ELSE OkVal(Real(a.num * b.den * (IF b.num < 0 THEN -1 ELSE 1),
                            a.den * (IF b.num < 0 THEN -b.num ELSE b.num)))
    ELSE Fail(Err("TypeError"))

div_values(left, right) ==
    IF left.tag = "Integer" /\ right.tag = "Integer"
    THEN IF right.n = 0 THEN Fail(Err("DivisionByZero"))
         ELSE OkVal(Integer(TruncDiv(left.n, right.n)))
    ELSE IF RealOperands(left, right)
    THEN LET a == value_to_number(left).val
             b == value_to_number(right).val
         IN IF b.num = 0 THEN Fail(Err("DivisionByZero"))
            ELSE OkVal(Real(a.num * b.den * (IF b.num < 0 THEN -1 ELSE 1),
                            a.den * (IF b.num < 0 THEN -b.num ELSE b.num)))
    ELSE Fail(Err("TypeError"))

\* compare_values with value_to_number; cmp is the operator of the comparison
compare_values(left, right, cmp) ==
    LET l == value_to_number(left)
        r == value_to_number(right)
    IN IF l.sig.kind # "Ok" THEN l
       ELSE IF r.sig.kind # "Ok" THEN r
       ELSE LET a == l.val.num * r.val.den
                b == r.val.num * l.val.den
            IN OkVal(Bool(CASE cmp = "Lt" -> a < b
                            [] cmp = "Le" -> a <= b
                            [] cmp = "Gt" -> a > b
                            [] cmp = "Ge" -> a >= b))

evaluate_binary_op(op, left, right) ==
    CASE op = "Add" -> add_values(left, right)
      [] op = "Sub" -> sub_values(left, right)
      [] op = "Mul" -> mul_values(left, right)
      [] op = "Div" -> div_values(left, right)
      [] op = "Eq" -> OkVal(Bool(ValueEq(left, right)))
      [] op = "Ne" -> OkVal(Bool(~ValueEq(left, right)))
      [] op \in {"Lt", "Le", "Gt", "Ge"} -> compare_values(left, right, op)
      [] op = "And" ->
            IF ~value_to_bool(left) THEN OkVal(Bool(FALSE))
            ELSE OkVal(Bool(value_to_bool(right)))
      [] op = "Or" ->
            IF value_to_bool(left) THEN OkVal(Bool(TRUE))
            ELSE OkVal(Bool(value_to_bool(right)))
      [] op = "Xor" -> OkVal(Bool(value_to_bool(left) # value_to_bool(right)))
      [] op = "Is" -> Fail(Err("InvalidOperation"))

evaluate_unary_op(op, val) ==
    CASE op = "Neg" ->
            IF val.tag = "Integer" THEN OkVal(Integer(-val.n))
            ELSE IF val.tag = "Real" THEN OkVal(Real(-val.num, val.den))
            ELSE Fail(Err("TypeError"))
      [] op = "Not" -> OkVal(Bool(~value_to_bool(val)))

\* evaluate_index with 0-based array indices
evaluate_index_zero_based(target, index) ==
    IF index.tag # "Integer" THEN Fail(Err("TypeError"))
    ELSE IF target.tag = "Array"
    THEN IF index.n < 0 \/ index.n >= Len(target.elems)
         THEN Fail(IndexOutOfBounds(index.n, Len(target.elems)))
         ELSE OkVal(target.elems[index.n + 1])
    ELSE Fail(Err("TypeError"))

evaluate_index(target, index) ==
    IF index.tag # "Integer" THEN Fail(Err("TypeError"))
    ELSE IF target.tag = "Array"
    THEN IF index.n < 1 \/ index.n > Len(target.elems)
         THEN Fail(IndexOutOfBounds(index.n, Len(target.elems)))
         ELSE OkVal(target.elems[index.n])
    ELSE IF target.tag = "Tuple"
    THEN LET key == IntToString(index.n) IN
         IF key \in DOMAIN target.fields THEN OkVal(target.fields[key])
         ELSE Fail(Err("RuntimeError"))
    ELSE Fail(Err("TypeError"))

evaluate_member(target, field) ==
    IF target.tag = "Tuple"
    THEN IF field \in DOMAIN target.fields THEN OkVal(target.fields[field])
         ELSE Fail(Err("RuntimeError"))
    ELSE Fail(Err("TypeError"))

\* The values low..high, or low down to high when low > high
RangeValues(low, high) ==
    IF low <= high
    THEN [i \in 1..(high - low + 1) |-> Integer(low + i - 1)]
    ELSE [i \in 1..(low - high + 1) |-> Integer(low - i + 1)]

evaluate_range(low, high) ==
    IF low.tag # "Integer" \/ high.tag # "Integer" THEN Fail(Err("TypeError"))
    ELSE OkVal(Array(RangeValues(low.n, high.n)))

iterable_to_vec(val) ==
    IF val.tag = "Array" THEN OkVal(val.elems) ELSE Fail(Err("TypeError"))

-----------------------------------------------------------------------------
(* interpreter.rs: Interpreter.  The interpreter state st is a record of   *)
(* environment, inside_loop and inside_function (the struct's fields), the *)
(* lines printed so far (out) and the steps the run may still take.        *)
(* A statement yields [st, sig]; an expression yields [st, sig, val].      *)

InterpreterNew ==
    [environment |-> EnvNew, inside_loop |-> FALSE, inside_function |-> FALSE,
     out |-> <<>>, steps |-> MaxSteps]

Done(st, sig) == [st |-> st, sig |-> sig]
Value(st, v) == [st |-> st, sig |-> Ok, val |-> v]
\* A result of one of the pure operations above, in state st
Lift(st, r) == IF r.sig.kind = "Ok" THEN Value(st, r.val) ELSE Done(st, r.sig)

\* call_function: for (param, arg) in params.zip(args) { environment.define(param, arg) }
RECURSIVE BindParams(_, _, _)
BindParams(env, params, args) ==
    IF Len(params) = 0 \/ Len(args) = 0 THEN env
    ELSE BindParams(EnvDefine(env, Head(params), Head(args)), Tail(params), Tail(args))

(* Every method of the interpreter takes &mut self; a call self.m(args)    *)
(* made in state st is self(<<"m", args>>, st), which yields the method's  *)
(* result together with the interpreter state it leaves behind.            *)
RECURSIVE self(_, _)

\* args.iter().map(|arg| self.evaluate_expr(arg)).collect::<Result<_, _>>()
evaluate_exprs(exprs, st) ==
    IF Len(exprs) = 0 THEN Value(st, <<>>)
    ELSE LET h == self(<<"evaluate_expr", Head(exprs)>>, st) IN
         IF h.sig.kind # "Ok" THEN h
         ELSE LET t == self(<<"evaluate_exprs", Tail(exprs)>>, h.st) IN
              IF t.sig.kind # "Ok" THEN t ELSE Value(t.st, <<h.val>> \o t.val)

evaluate_expr(expr, st) ==
    CASE expr.tag \in {"Integer", "Real", "Bool", "String", "None"} -> Value(st, expr)
      [] expr.tag = "Ident" ->
            LET got == EnvGet(st.environment, expr.name) IN
            IF got = NoOpt THEN Done(st, Err("UndefinedVariable")) ELSE Value(st, got[1])
      [] expr.tag = "Binary" ->
            LET l == self(<<"evaluate_expr", expr.left>>, st) IN
            IF l.sig.kind # "Ok" THEN l
            ELSE LET r == self(<<"evaluate_expr", expr.right>>, l.st) IN
                 IF r.sig.kind # "Ok" THEN r
                 ELSE Lift(r.st, evaluate_binary_op(expr.op, l.val, r.val))
      [] expr.tag = "Unary" ->
            LET v == self(<<"evaluate_expr", expr.expr>>, st) IN
            IF v.sig.kind # "Ok" THEN v ELSE Lift(v.st, evaluate_unary_op(expr.op, v.val))
      [] expr.tag = "Call" ->
            LET c == self(<<"evaluate_expr", expr.callee>>, st) IN
            IF c.sig.kind # "Ok" THEN c
            ELSE LET a == self(<<"evaluate_exprs", expr.args>>, c.st) IN
                 IF a.sig.kind # "Ok" THEN a ELSE self(<<"call_function", c.val, a.val>>, a.st)
      [] expr.tag = "Index" ->
            LET t == self(<<"evaluate_expr", expr.target>>, st) IN
            IF t.sig.kind # "Ok" THEN t
            ELSE LET i == self(<<"evaluate_expr", expr.index>>, t.st) IN
                 IF i.sig.kind # "Ok" THEN i ELSE Lift(i.st, evaluate_index(t.val, i.val))
      [] expr.tag = "Member" ->
            LET t == self(<<"evaluate_expr", expr.target>>, st) IN
            IF t.sig.kind # "Ok" THEN t ELSE Lift(t.st, evaluate_member(t.val, expr.field))
      [] expr.tag = "Array" ->
            LET vs == self(<<"evaluate_exprs", expr.elems>>, st) IN
            IF vs.sig.kind # "Ok" THEN vs ELSE Value(vs.st, Array(vs.val))
      [] expr.tag = "Tuple" ->
            LET vs == self(<<"evaluate_exprs",
                             [i \in 1..Len(expr.elems) |-> expr.elems[i].value]>>, st)
                key(i) == IF expr.elems[i].name # NoOpt THEN expr.elems[i].name[1]
                          ELSE IntToString(i)
                \* tuple.insert(key, value): a later element replaces an
                \* earlier one of the same key
                last(k) == CHOOSE i \in 1..Len(expr.elems) :
                               /\ key(i) = k
                               /\ \A j \in (i + 1)..Len(expr.elems) : key(j) # k
            IN IF vs.sig.kind # "Ok" THEN vs
               ELSE Value(vs.st,
                          TupleValue([k \in {key(i) : i \in 1..Len(expr.elems)} |->
                                         vs.val[last(k)]]))
      [] expr.tag = "Range" ->
            LET lo == self(<<"evaluate_expr", expr.low>>, st) IN
            IF lo.sig.kind # "Ok" THEN lo
            ELSE LET hi == self(<<"evaluate_expr", expr.high>>, lo.st) IN
                 IF hi.sig.kind # "Ok" THEN hi ELSE Lift(hi.st, evaluate_range(lo.val, hi.val))
      [] expr.tag = "Func" ->
            Value(st, Function(expr.params, expr.body, st.environment))

\* call_function without the test of params.len() against args.len()
call_function_unchecked(callee, args, st) ==
    IF callee.tag # "Function" THEN Done(st, Err("TypeError"))
    ELSE IF st.steps = 0 THEN Done(st, Running)
    ELSE
      LET old_env == st.environment
          prev_inside_function == st.inside_function
          st1 == [st EXCEPT !.environment = BindParams(callee.closure, callee.params, args),
                            !.inside_function = TRUE,
                            !.steps = @ - 1]
          r == IF callee.body.kind = "Expr"
               THEN self(<<"evaluate_expr", callee.body.expr>>, st1)
               ELSE self(<<"run_stmts", callee.body.stmts>>, st1)
          restored == [r.st EXCEPT !.environment = old_env,
                                   !.inside_function = prev_inside_function]
      IN CASE r.sig.kind = "Ok" ->
                Value(restored, IF callee.body.kind = "Expr" THEN r.val ELSE None)
           [] r.sig.kind = "Return" -> Value(restored, r.sig.val)
           [] r.sig.kind = "Running" -> Done(r.st, Running)
           [] OTHER -> Done(restored, r.sig)

call_function(callee, args, st) ==
    IF callee.tag # "Function" THEN Done(st, Err("TypeError"))
    ELSE IF Len(callee.params) # Len(args) THEN Done(st, Err("RuntimeError"))
    ELSE IF st.steps = 0 THEN Done(st, Running)
    ELSE
      LET old_env == st.environment
          prev_inside_function == st.inside_function
          st1 == [st EXCEPT !.environment = BindParams(callee.closure, callee.params, args),
                            !.inside_function = TRUE,
                            !.steps = @ - 1]
          r == IF callee.body.kind = "Expr"
               THEN self(<<"evaluate_expr", callee.body.expr>>, st1)
               ELSE self(<<"run_stmts", callee.body.stmts>>, st1)
          restored == [r.st EXCEPT !.environment = old_env,
                                   !.inside_function = prev_inside_function]
      IN CASE r.sig.kind = "Ok" ->
                Value(restored, IF callee.body.kind = "Expr" THEN r.val ELSE None)
           [] r.sig.kind = "Return" -> Value(restored, r.sig.val)
           [] r.sig.kind = "Running" -> Done(r.st, Running)
           [] OTHER -> Done(restored, r.sig)

assign_to_target(target, value, st) ==
    CASE target.tag = "Ident" ->
            LET a == EnvAssign(st.environment, target.name, value) IN
            IF ~a.found THEN Done(st, Err("UndefinedVariable"))
            ELSE Done([st EXCEPT !.environment = a.env], Ok)
      [] target.tag = "Index" ->
            LET arr == self(<<"evaluate_expr", target.target>>, st) IN
            IF arr.sig.kind # "Ok" THEN Done(arr.st, arr.sig)
            ELSE LET idx == self(<<"evaluate_expr", target.index>>, arr.st) IN
                 IF idx.sig.kind # "Ok" THEN Done(idx.st, idx.sig)
                 ELSE IF arr.val.tag = "Tuple"
                 THEN IF idx.val.tag \notin {"Integer", "String"}
                      THEN Done(idx.st, Err("TypeError"))
                      ELSE IF target.target.tag # "Ident"
                      THEN Done(idx.st, Err("RuntimeError"))
                      ELSE LET key == IF idx.val.tag = "Integer"
                                      THEN IntToString(idx.val.n) ELSE idx.val.s
                           IN Done([idx.st EXCEPT !.environment =
                                       EnvDefine(@, target.target.name,
                                                 TupleValue((key :> value) @@ arr.val.fields))],
                                   Ok)
                 ELSE IF arr.val.tag # "Array" THEN Done(idx.st, Err("TypeError"))
                 ELSE IF idx.val.tag # "Integer" THEN Done(idx.st, Err("TypeError"))
                 ELSE IF idx.val.n < 1 \/ idx.val.n > Len(arr.val.elems)
                 THEN Done(idx.st, IndexOutOfBounds(idx.val.n, Len(arr.val.elems)))
                 ELSE IF target.target.tag # "Ident" THEN Done(idx.st, Err("RuntimeError"))
                 ELSE Done([idx.st EXCEPT !.environment =
                                EnvDefine(@, target.target.name,
                                          Array([arr.val.elems EXCEPT ![idx.val.n] = value]))],
                           Ok)
      [] target.tag = "Member" ->
            LET t == self(<<"evaluate_expr", target.target>>, st) IN
            IF t.sig.kind # "Ok" THEN Done(t.st, t.sig)
            ELSE IF t.val.tag # "Tuple" THEN Done(t.st, Err("TypeError"))
            ELSE IF target.target.tag # "Ident" THEN Done(t.st, Err("RuntimeError"))
            ELSE Done([t.st EXCEPT !.environment =
                          EnvDefine(@, target.target.name,
                                    TupleValue((target.field :> value) @@ t.val.fields))],
                      Ok)
      [] OTHER -> Done(st, Err("RuntimeError"))

\* The arguments of a print, evaluated into the strings of the line
print_args(args, output, st) ==
    IF Len(args) = 0 THEN Done([st EXCEPT !.out = Append(@, Join(output, " "))], Ok)
    ELSE LET v == self(<<"evaluate_expr", Head(args)>>, st) IN
         IF v.sig.kind # "Ok" THEN Done(v.st, v.sig)
         ELSE self(<<"print_args", Tail(args), Append(output, value_to_string(v.val))>>, v.st)

\* for stmt in stmts { self.execute_stmt(stmt)? }: stops at the first signal
run_stmts(stmts, st) ==
    IF Len(stmts) = 0 THEN Done(st, Ok)
    ELSE LET r == self(<<"execute_stmt", Head(stmts)>>, st) IN
         IF r.sig.kind # "Ok" THEN r ELSE self(<<"run_stmts", Tail(stmts)>>, r.st)

\* execute_block putting the saved environment back only after a normal end
execute_block_unrestored(stmts, st) ==
    LET old_env == st.environment
        r == self(<<"run_stmts", stmts>>, [st EXCEPT !.environment = EnvNewWithParent(old_env)])
    IN IF r.sig.kind = "Ok" THEN Done([r.st EXCEPT !.environment = old_env], r.sig)
       ELSE r

execute_block(stmts, st) ==
    LET old_env == st.environment
        r == self(<<"run_stmts", stmts>>, [st EXCEPT !.environment = EnvNewWithParent(old_env)])
    IN Done([r.st EXCEPT !.environment = old_env], r.sig)

\* The loop of Stmt::While, entered with inside_loop already set
while_loop(cond, body, prev_inside_loop, st) ==
    LET c == self(<<"evaluate_expr", cond>>, st) IN
    IF c.sig.kind # "Ok" THEN Done(c.st, c.sig)
    ELSE IF ~value_to_bool(c.val)
    THEN Done([c.st EXCEPT !.inside_loop = prev_inside_loop], Ok)
    ELSE IF c.st.steps = 0 THEN Done(c.st, Running)
    ELSE LET b == self(<<"execute_block", body>>, [c.st EXCEPT !.steps = @ - 1])
             restored == [b.st EXCEPT !.inside_loop = prev_inside_loop]
         IN CASE b.sig.kind = "Ok" -> self(<<"while_loop", cond, body, prev_inside_loop>>, b.st)
              [] b.sig.kind = "Exit" -> Done(restored, Ok)
              [] b.sig.kind = "Return" -> Done(restored, ReturnSig(None))
              [] b.sig.kind = "Running" -> b
              [] OTHER -> Done(restored, b.sig)

\* The loop of Stmt::For whose iterable is Expr::None
for_forever(var, body, prev_inside_loop, st) ==
    IF st.steps = 0 THEN Done(st, Running)
    ELSE LET old_env == st.environment
             scope == EnvNewWithParent(old_env)
             st1 == [st EXCEPT !.environment =
                                  IF var # "_" THEN EnvDefine(scope, var, None) ELSE scope,
                               !.steps = @ - 1]
             b == self(<<"execute_block", body>>, st1)
             restored == [b.st EXCEPT !.environment = old_env,
                                      !.inside_loop = prev_inside_loop]
         IN CASE b.sig.kind = "Ok" ->
                    self(<<"for_forever", var, body, prev_inside_loop>>, [b.st EXCEPT !.environment = old_env])
              [] b.sig.kind = "Exit" -> Done(restored, Ok)
              [] b.sig.kind = "Return" -> Done(restored, ReturnSig(None))
              [] b.sig.kind = "Running" -> b
              [] OTHER -> Done(restored, b.sig)

\* The loop of Stmt::For over the items of the iterable
for_items(var, items, body, prev_inside_loop, st) ==
    IF Len(items) = 0 THEN Done([st EXCEPT !.inside_loop = prev_inside_loop], Ok)
    ELSE IF st.steps = 0 THEN Done(st, Running)
    ELSE LET old_env == st.environment
             st1 == [st EXCEPT !.environment =
                                  EnvDefine(EnvNewWithParent(old_env), var, Head(items)),
                               !.steps = @ - 1]
             b == self(<<"execute_block", body>>, st1)
             restored == [b.st EXCEPT !.environment = old_env,
                                      !.inside_loop = prev_inside_loop]
         IN CASE b.sig.kind = "Ok" ->
                    self(<<"for_items", var, Tail(items), body, prev_inside_loop>>, [b.st EXCEPT !.environment = old_env])
              [] b.sig.kind = "Exit" -> Done(restored, Ok)
              [] b.sig.kind = "Return" -> Done(restored, ReturnSig(None))
              [] b.sig.kind = "Running" -> b
              [] OTHER -> Done(restored, b.sig)

execute_stmt(stmt, st) ==
    CASE stmt.tag = "VarDecl" ->
            LET v == self(<<"evaluate_expr", stmt.init>>, st) IN
            IF v.sig.kind # "Ok" THEN Done(v.st, v.sig)
            ELSE Done([v.st EXCEPT !.environment = EnvDefine(@, stmt.name, v.val)], Ok)
      [] stmt.tag = "Assign" ->
            LET v == self(<<"evaluate_expr", stmt.value>>, st) IN
            IF v.sig.kind # "Ok" THEN Done(v.st, v.sig)
            ELSE self(<<"assign_to_target", stmt.target, v.val>>, v.st)
      [] stmt.tag = "Print" -> self(<<"print_args", stmt.args, <<>>>>, st)
      [] stmt.tag = "If" ->
            LET c == self(<<"evaluate_expr", stmt.cond>>, st) IN
            IF c.sig.kind # "Ok" THEN Done(c.st, c.sig)
            ELSE IF value_to_bool(c.val) THEN self(<<"execute_block", stmt.then_branch>>, c.st)
            ELSE IF stmt.else_branch # NoOpt THEN self(<<"execute_block", stmt.else_branch[1]>>, c.st)
            ELSE Done(c.st, Ok)
      [] stmt.tag = "While" ->
            self(<<"while_loop", stmt.cond, stmt.body, st.inside_loop>>, [st EXCEPT !.inside_loop = TRUE])
      [] stmt.tag = "For" ->
            LET prev_inside_loop == st.inside_loop
                st1 == [st EXCEPT !.inside_loop = TRUE]
            IN IF stmt.iterable.tag = "None"
               THEN self(<<"for_forever", stmt.var, stmt.body, prev_inside_loop>>, st1)
               ELSE LET it == self(<<"evaluate_expr", stmt.iterable>>, st1) IN
                    IF it.sig.kind # "Ok" THEN Done(it.st, it.sig)
                    ELSE LET items == iterable_to_vec(it.val) IN
                         IF items.sig.kind # "Ok" THEN Done(it.st, items.sig)
                         ELSE self(<<"for_items", stmt.var, items.val, stmt.body, prev_inside_loop>>, it.st)
      [] stmt.tag = "Return" ->
            IF ~st.inside_function THEN Done(st, Err("RuntimeError"))
            ELSE IF stmt.expr = NoOpt THEN Done(st, ReturnSig(None))
            ELSE LET v == self(<<"evaluate_expr", stmt.expr[1]>>, st) IN
                 IF v.sig.kind # "Ok" THEN Done(v.st, v.sig) ELSE Done(v.st, ReturnSig(v.val))
      [] stmt.tag = "Exit" ->
            IF ~st.inside_loop THEN Done(st, Err("RuntimeError")) ELSE Done(st, ExitSig)
      [] stmt.tag = "Expr" ->
            LET v == self(<<"evaluate_expr", stmt.expr>>, st) IN Done(v.st, v.sig)


self(call, st) ==
    CASE call[1] = "evaluate_expr" -> evaluate_expr(call[2], st)
      [] call[1] = "evaluate_exprs" -> evaluate_exprs(call[2], st)
      [] call[1] = "call_function" -> call_function(call[2], call[3], st)
      [] call[1] = "assign_to_target" -> assign_to_target(call[2], call[3], st)
      [] call[1] = "print_args" -> print_args(call[2], call[3], st)
      [] call[1] = "run_stmts" -> run_stmts(call[2], st)
      [] call[1] = "execute_block" -> execute_block(call[2], st)
      [] call[1] = "while_loop" -> while_loop(call[2], call[3], call[4], st)
      [] call[1] = "for_forever" -> for_forever(call[2], call[3], call[4], st)
      [] call[1] = "for_items" -> for_items(call[2], call[3], call[4], call[5], st)
      [] call[1] = "execute_stmt" -> execute_stmt(call[2], st)
\* Interpreter::interpret on a program (its statements), from interpreter state st
interpret(stmts, st) == run_stmts(stmts, st)

-----------------------------------------------------------------------------
(* analyzer.rs: SemanticChecker.  The checker ck is the record of the      *)
(* struct's fields; scope_stack and array_sizes_stack are sequences whose  *)
(* last element is the innermost scope.                                    *)

SemanticCheckerNew ==
    [scope_stack |-> <<EmptyFrame>>, array_sizes_stack |-> <<EmptyFrame>>,
     inside_function |-> FALSE, inside_loop |-> FALSE, errors |-> <<>>]

\* SymbolInfo: symbol_type is Variable or Function { param_count }
VariableSymbol == [is_function |-> FALSE, param_count |-> 0]
FunctionSymbol(param_count) == [is_function |-> TRUE, param_count |-> param_count]

push_scope(ck) ==
    [ck EXCEPT !.scope_stack = Append(@, EmptyFrame),
               !.array_sizes_stack = Append(@, EmptyFrame)]

pop_scope(ck) ==
    IF Len(ck.scope_stack) > 1
    THEN [ck EXCEPT !.scope_stack = SubSeq(@, 1, Len(@) - 1),
                    !.array_sizes_stack = SubSeq(@, 1, Len(@) - 1)]
    ELSE ck

\* The index of the innermost map of stack that holds name, 0 when none does
StackFrameOf(stack, name) ==
    IF \E i \in 1..Len(stack) : name \in DOMAIN stack[i]
    THEN CHOOSE i \in 1..Len(stack) :
            /\ name \in DOMAIN stack[i]
            /\ \A j \in (i + 1)..Len(stack) : name \notin DOMAIN stack[j]
    ELSE 0

\* get_symbol: Some(symbol) or None
get_symbol(ck, name) ==
    IF StackFrameOf(ck.scope_stack, name) = 0 THEN NoOpt
    ELSE Some(ck.scope_stack[StackFrameOf(ck.scope_stack, name)][name])

is_declared(ck, name) == StackFrameOf(ck.scope_stack, name) # 0

\* declare_var refusing a name that is declared in any frame of the stack
declare_var_any_frame(ck, name, info) ==
    IF is_declared(ck, name)
    THEN [ck |-> ck, ok |-> FALSE]
    ELSE [ck |-> [ck EXCEPT !.scope_stack[Len(ck.scope_stack)] = (name :> info) @@ @],
          ok |-> TRUE]

\* declare_var: the checker after the call and the bool it returns
declare_var(ck, name, info) ==
    IF name \in DOMAIN ck.scope_stack[Len(ck.scope_stack)]
    THEN [ck |-> ck, ok |-> FALSE]
    ELSE [ck |-> [ck EXCEPT !.scope_stack[Len(ck.scope_stack)] = (name :> info) @@ @],
          ok |-> TRUE]

record_array_size(ck, name, size) ==
    [ck EXCEPT !.array_sizes_stack[Len(ck.array_sizes_stack)] = (name :> size) @@ @]

\* get_array_size: Some(size) or None
get_array_size(ck, name) ==
    IF StackFrameOf(ck.array_sizes_stack, name) = 0 THEN NoOpt
    ELSE Some(ck.array_sizes_stack[StackFrameOf(ck.array_sizes_stack, name)][name])

PushError(ck, msg) == [ck EXCEPT !.errors = Append(@, msg)]

ErrAlreadyDeclaredFunction(name) == "Function '" \o name \o "' is already declared"
ErrAlreadyDeclaredVariable(name) == "Variable '" \o name \o "' is already declared"
ErrUsedBeforeDeclaration(name) ==
    "Variable or function '" \o name \o "' used before declaration"
ErrReturnOutsideFunction == "Return statement outside of function"
ErrDivisionByZero == "Division by zero detected"
ErrArity(name, param_count, got) ==
    "Function '" \o name \o "' expects " \o IntToString(param_count)
        \o " arguments, got " \o IntToString(got)
ErrArrayBounds(idx, size) ==
    "Array index " \o IntToString(idx) \o " out of bounds (valid range: 1.."
        \o IntToString(size) \o ")"

check_array_bounds(expr, ck) ==
    IF expr.tag = "Index" /\ expr.index.tag = "Integer"
    THEN CASE expr.target.tag = "Array" ->
                 IF expr.index.n < 1 \/ expr.index.n > Len(expr.target.elems)
                 THEN PushError(ck, ErrArrayBounds(expr.index.n, Len(expr.target.elems)))
                 ELSE ck
           [] expr.target.tag = "Ident" ->
                 LET size == get_array_size(ck, expr.target.name) IN
                 IF size # NoOpt /\ (expr.index.n < 1 \/ expr.index.n > size[1])
                 THEN PushError(ck, ErrArrayBounds(expr.index.n, size[1]))
                 ELSE ck
           [] OTHER -> ck
    ELSE ck

\* for param in params { self.declare_var(param, ...) }
RECURSIVE DeclareParams(_, _)
DeclareParams(params, ck) ==
    IF Len(params) = 0 THEN ck
    ELSE DeclareParams(Tail(params), declare_var(ck, Head(params), VariableSymbol).ck)

RECURSIVE check_expr(_, _)
RECURSIVE check_exprs(_, _)
RECURSIVE check_stmt(_, _)
RECURSIVE check_stmts(_, _)

check_exprs(exprs, ck) ==
    IF Len(exprs) = 0 THEN ck ELSE check_exprs(Tail(exprs), check_expr(Head(exprs), ck))

check_stmts(stmts, ck) ==
    IF Len(stmts) = 0 THEN ck ELSE check_stmts(Tail(stmts), check_stmt(Head(stmts), ck))

check_expr(expr, ck) ==
    CASE expr.tag \in {"Integer", "Real", "Bool", "String", "None"} -> ck
      [] expr.tag = "Ident" ->
            IF ~is_declared(ck, expr.name)
            THEN PushError(ck, ErrUsedBeforeDeclaration(expr.name))
            ELSE ck
      [] expr.tag = "Binary" ->
            LET ck1 == IF /\ expr.op = "Div"
                          /\ \/ expr.right.tag = "Integer" /\ expr.right.n = 0
                             \/ expr.right.tag = "Real" /\ expr.right.num = 0
                       THEN PushError(ck, ErrDivisionByZero)
                       ELSE ck
            IN check_expr(expr.right, check_expr(expr.left, ck1))
      [] expr.tag = "Unary" -> check_expr(expr.expr, ck)
      [] expr.tag = "Call" ->
            LET ck1 == check_exprs(expr.args, check_expr(expr.callee, ck))
                symbol == IF expr.callee.tag = "Ident"
                          THEN get_symbol(ck1, expr.callee.name)
                          ELSE NoOpt
            IN IF /\ symbol # NoOpt
                  /\ symbol[1].is_function
                  /\ Len(expr.args) # symbol[1].param_count
               THEN PushError(ck1, ErrArity(expr.callee.name, symbol[1].param_count,
                                            Len(expr.args)))
               ELSE ck1
      [] expr.tag = "Index" ->
            check_array_bounds(expr, check_expr(expr.index, check_expr(expr.target, ck)))
      [] expr.tag = "Member" -> check_expr(expr.target, ck)
      [] expr.tag = "Array" -> check_exprs(expr.elems, ck)
      [] expr.tag = "Tuple" ->
            check_exprs([i \in 1..Len(expr.elems) |-> expr.elems[i].value], ck)
      [] expr.tag = "Range" -> check_expr(expr.high, check_expr(expr.low, ck))
      [] expr.tag = "Func" ->
            LET prev_inside_function == ck.inside_function
                ck1 == DeclareParams(expr.params,
                                     push_scope([ck EXCEPT !.inside_function = TRUE]))
                ck2 == IF expr.body.kind = "Expr"
                       THEN check_expr(expr.body.expr, ck1)
                       ELSE check_stmts(expr.body.stmts, ck1)
            IN [pop_scope(ck2) EXCEPT !.inside_function = prev_inside_function]

check_stmt(stmt, ck) ==
    CASE stmt.tag = "VarDecl" ->
            IF stmt.init.tag = "Func"
            THEN LET d == declare_var(ck, stmt.name,
                                      FunctionSymbol(Len(stmt.init.params)))
                     ck1 == IF d.ok THEN d.ck
                            ELSE PushError(d.ck, ErrAlreadyDeclaredFunction(stmt.name))
                 IN check_expr(stmt.init, ck1)
            ELSE LET d == declare_var(check_expr(stmt.init, ck), stmt.name, VariableSymbol)
                     ck1 == IF d.ok THEN d.ck
                            ELSE PushError(d.ck, ErrAlreadyDeclaredVariable(stmt.name))
                 IN IF stmt.init.tag = "Array"
                    THEN record_array_size(ck1, stmt.name, Len(stmt.init.elems))
                    ELSE ck1
      [] stmt.tag = "Assign" ->
            check_array_bounds(stmt.target,
                               check_expr(stmt.value, check_expr(stmt.target, ck)))
      [] stmt.tag = "Print" -> check_exprs(stmt.args, ck)
      [] stmt.tag = "If" ->
            LET ck1 == pop_scope(check_stmts(stmt.then_branch,
                                             push_scope(check_expr(stmt.cond, ck))))
            IN IF stmt.else_branch # NoOpt
               THEN pop_scope(check_stmts(stmt.else_branch[1], push_scope(ck1)))
               ELSE ck1
      [] stmt.tag = "While" ->
            LET prev_inside_loop == ck.inside_loop
                ck1 == [check_expr(stmt.cond, ck) EXCEPT !.inside_loop = TRUE]
                ck2 == pop_scope(check_stmts(stmt.body, push_scope(ck1)))
            IN [ck2 EXCEPT !.inside_loop = prev_inside_loop]
      [] stmt.tag = "For" ->
            LET prev_inside_loop == ck.inside_loop
                ck1 == [check_expr(stmt.iterable, ck) EXCEPT !.inside_loop = TRUE]
                ck2 == declare_var(push_scope(ck1), stmt.var, VariableSymbol).ck
                ck3 == pop_scope(check_stmts(stmt.body, ck2))
            IN [ck3 EXCEPT !.inside_loop = prev_inside_loop]
      [] stmt.tag = "Return" ->
            IF ~ck.inside_function THEN PushError(ck, ErrReturnOutsideFunction) ELSE ck
      [] stmt.tag = "Exit" -> ck
      [] stmt.tag = "Expr" -> check_expr(stmt.expr, ck)

\* SemanticChecker::check: the checker after the call; the call returns Ok
\* when its errors are empty
check(ck, stmts) == check_stmts(stmts, [ck EXCEPT !.errors = <<>>])
CheckOk(ck) == Len(ck.errors) = 0

-----------------------------------------------------------------------------
(* analyzer.rs: Optimizer.  A pass yields the statements it leaves and the *)
(* bool it returns; constants and shadowed_vars are cleared at the start   *)
(* of every iteration of optimize, so they are values of the iteration.    *)

Pass(stmts, flag) == [stmts |-> stmts, changed |-> flag]

has_vardecl(stmts) == \E i \in 1..Len(stmts) : stmts[i].tag = "VarDecl"

is_constant_expr(expr) == expr.tag \in {"Integer", "Real", "Bool", "String", "None"}

RECURSIVE find_shadowed_in_stmt(_, _)
RECURSIVE find_shadowed_in_block(_, _)

find_shadowed_in_stmt(stmt, outer_vars) ==
    CASE stmt.tag = "If" ->
            find_shadowed_in_block(stmt.then_branch, outer_vars)
              \cup (IF stmt.else_branch # NoOpt
                    THEN find_shadowed_in_block(stmt.else_branch[1], outer_vars)
                    ELSE {})
      [] stmt.tag \in {"While", "For"} -> find_shadowed_in_block(stmt.body, outer_vars)
      [] OTHER -> {}

find_shadowed_in_block(stmts, outer_vars) ==
    UNION {(IF stmts[i].tag = "VarDecl" /\ stmts[i].name \in outer_vars
            THEN {stmts[i].name} ELSE {})
             \cup find_shadowed_in_stmt(stmts[i], outer_vars) : i \in 1..Len(stmts)}

\* The shadowed_vars set collect_shadowed_vars leaves
collect_shadowed_vars(stmts) ==
    LET outer_vars == {stmts[i].name : i \in {j \in 1..Len(stmts) : stmts[j].tag = "VarDecl"}}
    IN UNION {find_shadowed_in_stmt(stmts[i], outer_vars) : i \in 1..Len(stmts)}

RECURSIVE collect_assigned_vars(_)
collect_assigned_vars(stmt) ==
    CASE stmt.tag = "Assign" ->
            IF stmt.target.tag = "Ident" THEN {stmt.target.name} ELSE {}
      [] stmt.tag = "If" ->
            UNION {collect_assigned_vars(stmt.then_branch[i]) : i \in 1..Len(stmt.then_branch)}
              \cup (IF stmt.else_branch # NoOpt
                    THEN UNION {collect_assigned_vars(stmt.else_branch[1][i]) :
                                  i \in 1..Len(stmt.else_branch[1])}
                    ELSE {})
      [] stmt.tag \in {"While", "For"} ->
            UNION {collect_assigned_vars(stmt.body[i]) : i \in 1..Len(stmt.body)}
      [] OTHER -> {}

\* The constants map collect_constants leaves (it returns false): a later
\* declaration of a name replaces an earlier one
collect_constants(stmts, shadowed_vars) ==
    LET assigned_vars == UNION {collect_assigned_vars(stmts[i]) : i \in 1..Len(stmts)}
        IsCandidate(i) == /\ stmts[i].tag = "VarDecl"
                          /\ is_constant_expr(stmts[i].init)
                          /\ stmts[i].name \notin assigned_vars
                          /\ stmts[i].name \notin shadowed_vars
        names == {stmts[i].name : i \in {j \in 1..Len(stmts) : IsCandidate(j)}}
        Last(name) == CHOOSE i \in 1..Len(stmts) :
                         /\ IsCandidate(i) /\ stmts[i].name = name
                         /\ \A j \in (i + 1)..Len(stmts) :
                               ~(IsCandidate(j) /\ stmts[j].name = name)
    IN [name \in names |-> stmts[Last(name)].init]

\* propagate_in_expr: the expression it leaves and the bool it returns
RECURSIVE propagate_in_expr(_, _)
propagate_in_expr(expr, constants) ==
    CASE expr.tag = "Ident" ->
            IF expr.name \in DOMAIN constants
            THEN [expr |-> constants[expr.name], changed |-> TRUE]
            ELSE [expr |-> expr, changed |-> FALSE]
      [] expr.tag = "Binary" ->
            LET l == propagate_in_expr(expr.left, constants)
                r == propagate_in_expr(expr.right, constants)
            IN [expr |-> [expr EXCEPT !.left = l.expr, !.right = r.expr],
                changed |-> l.changed \/ r.changed]
      [] expr.tag = "Unary" ->
            LET i == propagate_in_expr(expr.expr, constants)
            IN [expr |-> [expr EXCEPT !.expr = i.expr], changed |-> i.changed]
      [] OTHER -> [expr |-> expr, changed |-> FALSE]

RECURSIVE propagate_in_stmt(_, _)
RECURSIVE propagate_in_stmts(_, _)

\* for s in stmts { if self.propagate_in_stmt(s) { changed = true } }
propagate_in_stmts(stmts, constants) ==
    LET each == [i \in 1..Len(stmts) |-> propagate_in_stmt(stmts[i], constants)]
    IN Pass([i \in 1..Len(stmts) |-> each[i].stmt],
            \E i \in 1..Len(stmts) : each[i].changed)

\* A block is entered only when it has no VarDecl of its own
PropagateInBlock(stmts, constants) ==
    IF has_vardecl(stmts) THEN Pass(stmts, FALSE) ELSE propagate_in_stmts(stmts, constants)

propagate_in_stmt(stmt, constants) ==
    CASE stmt.tag = "If" ->
            LET c == propagate_in_expr(stmt.cond, constants)
                t == PropagateInBlock(stmt.then_branch, constants)
                e == IF stmt.else_branch # NoOpt
                     THEN PropagateInBlock(stmt.else_branch[1], constants)
                     ELSE Pass(<<>>, FALSE)
            IN [stmt |-> [stmt EXCEPT !.cond = c.expr, !.then_branch = t.stmts,
                                      !.else_branch = IF @ # NoOpt THEN Some(e.stmts) ELSE @],
                changed |-> c.changed \/ t.changed \/ e.changed]
      [] stmt.tag = "While" ->
            LET c == propagate_in_expr(stmt.cond, constants)
                b == PropagateInBlock(stmt.body, constants)
            IN [stmt |-> [stmt EXCEPT !.cond = c.expr, !.body = b.stmts],
                changed |-> c.changed \/ b.changed]
      [] stmt.tag = "For" ->
            LET c == propagate_in_expr(stmt.iterable, constants)
                b == PropagateInBlock(stmt.body, constants)
            IN [stmt |-> [stmt EXCEPT !.iterable = c.expr, !.body = b.stmts],
                changed |-> c.changed \/ b.changed]
      [] stmt.tag = "Print" ->
            LET a == [i \in 1..Len(stmt.args) |-> propagate_in_expr(stmt.args[i], constants)]
            IN [stmt |-> [stmt EXCEPT !.args = [i \in 1..Len(stmt.args) |-> a[i].expr]],
                changed |-> \E i \in 1..Len(stmt.args) : a[i].changed]
      [] stmt.tag = "Assign" ->
            LET v == propagate_in_expr(stmt.value, constants)
            IN [stmt |-> [stmt EXCEPT !.value = v.expr], changed |-> v.changed]
      [] OTHER -> [stmt |-> stmt, changed |-> FALSE]

propagate_constants(stmts, constants) == propagate_in_stmts(stmts, constants)

\* simplify_expr: expr is the expression left in place of the argument (the
\* replacement when the call returns Some, the argument with its operands
\* rewritten in place when it returns None); some is whether it returned Some
Simplified(expr) == [expr |-> expr, some |-> TRUE]
Unsimplified(expr) == [expr |-> expr, some |-> FALSE]

IsInt(e, n) == e.tag = "Integer" /\ e.n = n
IsBool(e, b) == e.tag = "Bool" /\ e.b = b

\* The match of simplify_expr on (left, op, right), the operands simplified;
\* the arms in the order of the source
SimplifyBinary(expr) ==
    LET left == expr.left
        op == expr.op
        right == expr.right
    IN IF /\ left.tag = "Integer" /\ right.tag = "Integer"
          /\ op \in {"Add", "Sub", "Mul", "Div", "Eq", "Ne", "Lt", "Le", "Gt", "Ge"}
       THEN CASE op = "Add" -> Simplified(Integer(left.n + right.n))
              [] op = "Sub" -> Simplified(Integer(left.n - right.n))
              [] op = "Mul" -> Simplified(Integer(left.n * right.n))
              [] op = "Div" -> IF right.n # 0
                               THEN Simplified(Integer(TruncDiv(left.n, right.n)))
                               ELSE Unsimplified(expr)
              [] op = "Eq" -> Simplified(Bool(left.n = right.n))
              [] op = "Ne" -> Simplified(Bool(left.n # right.n))
              [] op = "Lt" -> Simplified(Bool(left.n < right.n))
              [] op = "Le" -> Simplified(Bool(left.n <= right.n))
              [] op = "Gt" -> Simplified(Bool(left.n > right.n))
              [] op = "Ge" -> Simplified(Bool(left.n >= right.n))
       ELSE IF left.tag = "Bool" /\ right.tag = "Bool" /\ op \in {"And", "Or", "Xor"}
       THEN CASE op = "And" -> Simplified(Bool(left.b /\ right.b))
              [] op = "Or" -> Simplified(Bool(left.b \/ right.b))
              [] op = "Xor" -> Simplified(Bool(left.b # right.b))
       ELSE IF left.tag = "Real" /\ right.tag = "Real" /\ op \in {"Add", "Sub", "Mul", "Div"}
       THEN CASE op = "Add" ->
                   Simplified(Real(left.num * right.den + right.num * left.den,
                                   left.den * right.den))
              [] op = "Sub" ->
                   Simplified(Real(left.num * right.den - right.num * left.den,
                                   left.den * right.den))
              [] op = "Mul" ->
                   Simplified(Real(left.num * right.num, left.den * right.den))
              [] op = "Div" ->
                   IF right.num # 0
                   THEN Simplified(Real(left.num * right.den
                                          * (IF right.num < 0 THEN -1 ELSE 1),
                                        left.den * (IF right.num < 0 THEN -right.num
                                                    ELSE right.num)))
                   ELSE Unsimplified(expr)
       ELSE CASE op = "Add" ->
                   IF left.tag = "Ident" /\ IsInt(right, 0) THEN Simplified(left)
                   ELSE IF IsInt(left, 0) /\ right.tag = "Ident" THEN Simplified(right)
                   ELSE Unsimplified(expr)
              [] op = "Mul" ->
                   IF left.tag = "Ident" /\ IsInt(right, 1) THEN Simplified(left)
                   ELSE IF IsInt(left, 1) /\ right.tag = "Ident" THEN Simplified(right)
                   ELSE IF IsInt(right, 0) THEN Simplified(Integer(0))
                   ELSE IF IsInt(left, 0) THEN Simplified(Integer(0))
                   ELSE Unsimplified(expr)
              [] op = "And" ->
                   IF IsBool(left, TRUE) THEN Simplified(right)
                   ELSE IF IsBool(right, TRUE) THEN Simplified(left)
                   ELSE IF IsBool(left, FALSE) THEN Simplified(Bool(FALSE))
                   ELSE IF IsBool(right, FALSE) THEN Simplified(Bool(FALSE))
                   ELSE Unsimplified(expr)
              [] op = "Or" ->
                   IF IsBool(left, TRUE) THEN Simplified(Bool(TRUE))
                   ELSE IF IsBool(right, TRUE) THEN Simplified(Bool(TRUE))
                   ELSE IF IsBool(left, FALSE) THEN Simplified(right)
                   ELSE IF IsBool(right, FALSE) THEN Simplified(left)
                   ELSE Unsimplified(expr)
              [] OTHER -> Unsimplified(expr)

\* The match of simplify_expr on (op, expr), the operand simplified
SimplifyUnary(expr) ==
    CASE expr.op = "Not" /\ expr.expr.tag = "Bool" -> Simplified(Bool(~expr.expr.b))
      [] expr.op = "Neg" /\ expr.expr.tag = "Integer" -> Simplified(Integer(-expr.expr.n))
      [] expr.op = "Neg" /\ expr.expr.tag = "Real" ->
            Simplified(Real(-expr.expr.num, expr.expr.den))
      [] OTHER -> Unsimplified(expr)

RECURSIVE simplify_expr(_)
simplify_expr(expr) ==
    CASE expr.tag = "Binary" ->
            SimplifyBinary([expr EXCEPT !.left = simplify_expr(expr.left).expr,
                                        !.right = simplify_expr(expr.right).expr])
      [] expr.tag = "Unary" ->
            SimplifyUnary([expr EXCEPT !.expr = simplify_expr(expr.expr).expr])
      [] OTHER -> Unsimplified(expr)

RECURSIVE fold_stmt(_)
RECURSIVE fold_stmts(_)

\* for s in stmts { if self.fold_stmt(s) { changed = true } }
fold_stmts(stmts) ==
    LET each == [i \in 1..Len(stmts) |-> fold_stmt(stmts[i])]
    IN Pass([i \in 1..Len(stmts) |-> each[i].stmt], \E i \in 1..Len(stmts) : each[i].changed)

fold_stmt(stmt) ==
    CASE stmt.tag = "VarDecl" ->
            LET v == simplify_expr(stmt.init)
            IN [stmt |-> [stmt EXCEPT !.init = v.expr], changed |-> v.some]
      [] stmt.tag = "Assign" ->
            LET v == simplify_expr(stmt.value)
            IN [stmt |-> [stmt EXCEPT !.value = v.expr], changed |-> v.some]
      [] stmt.tag = "Print" ->
            LET a == [i \in 1..Len(stmt.args) |-> simplify_expr(stmt.args[i])]
            IN [stmt |-> [stmt EXCEPT !.args = [i \in 1..Len(stmt.args) |-> a[i].expr]],
                changed |-> \E i \in 1..Len(stmt.args) : a[i].some]
      [] stmt.tag = "If" ->
            LET c == simplify_expr(stmt.cond)
                t == fold_stmts(stmt.then_branch)
                e == IF stmt.else_branch # NoOpt THEN fold_stmts(stmt.else_branch[1])
                     ELSE Pass(<<>>, FALSE)
            IN [stmt |-> [stmt EXCEPT !.cond = c.expr, !.then_branch = t.stmts,
                                      !.else_branch = IF @ # NoOpt THEN Some(e.stmts) ELSE @],
                changed |-> c.some \/ t.changed \/ e.changed]
      [] stmt.tag = "While" ->
            LET c == simplify_expr(stmt.cond)
                b == fold_stmts(stmt.body)
            IN [stmt |-> [stmt EXCEPT !.cond = c.expr, !.body = b.stmts],
                changed |-> c.some \/ b.changed]
      [] stmt.tag = "For" ->
            LET c == simplify_expr(stmt.iterable)
                b == fold_stmts(stmt.body)
            IN [stmt |-> [stmt EXCEPT !.iterable = c.expr, !.body = b.stmts],
                changed |-> c.some \/ b.changed]
      [] OTHER -> [stmt |-> stmt, changed |-> FALSE]

fold_constants(stmts) == fold_stmts(stmts)

\* simplify_stmt walks the nested blocks, rewrites nothing and returns false
RECURSIVE simplify_stmt(_)
simplify_stmt(stmt) ==
    CASE stmt.tag = "If" ->
            \/ \E i \in 1..Len(stmt.then_branch) : simplify_stmt(stmt.then_branch[i])
            \/ /\ stmt.else_branch # NoOpt
               /\ \E i \in 1..Len(stmt.else_branch[1]) : simplify_stmt(stmt.else_branch[1][i])
      [] stmt.tag \in {"While", "For"} ->
            \E i \in 1..Len(stmt.body) : simplify_stmt(stmt.body[i])
      [] OTHER -> FALSE

\* simplify_conditionals: the while loop over the top-level statements from
\* index i on; a spliced branch is looked at again from its first statement
RECURSIVE simplify_conditionals(_)
simplify_conditionals(stmts) ==
    IF Len(stmts) = 0 THEN Pass(<<>>, FALSE)
    ELSE
      LET stmt == Head(stmts)
          skip == /\ stmt.tag = "If"
                  /\ \/ has_vardecl(stmt.then_branch)
                     \/ stmt.else_branch # NoOpt /\ has_vardecl(stmt.else_branch[1])
      IN IF stmt.tag = "If" /\ ~skip /\ IsBool(stmt.cond, TRUE)
         THEN Pass(simplify_conditionals(stmt.then_branch \o Tail(stmts)).stmts, TRUE)
         ELSE IF stmt.tag = "If" /\ ~skip /\ IsBool(stmt.cond, FALSE)
         THEN Pass(simplify_conditionals(
                      (IF stmt.else_branch # NoOpt THEN stmt.else_branch[1] ELSE <<>>)
                        \o Tail(stmts)).stmts, TRUE)
         ELSE LET rest == simplify_conditionals(Tail(stmts))
              IN Pass(<<stmt>> \o rest.stmts,
                      (~skip /\ simplify_stmt(stmt)) \/ rest.changed)

\* The statements up to and with the first Return or Exit
RECURSIVE Truncate(_)
Truncate(stmts) ==
    IF Len(stmts) = 0 THEN <<>>
    ELSE IF Head(stmts).tag \in {"Return", "Exit"} THEN <<Head(stmts)>>
    ELSE <<Head(stmts)>> \o Truncate(Tail(stmts))

\* remove_unreachable_code without the loop that stops at Return or Exit
remove_unreachable_code_kept(stmts) == Pass(stmts, FALSE)

\* remove_unreachable_code: the nested calls run on clones of the blocks, so
\* only the bool they return reaches the caller
RECURSIVE remove_unreachable_code(_)
remove_unreachable_code(stmts) ==
    LET new_stmts == Truncate(stmts)
        Nested(stmt) ==
            CASE stmt.tag = "If" ->
                    \/ remove_unreachable_code(stmt.then_branch).changed
                    \/ /\ stmt.else_branch # NoOpt
                       /\ remove_unreachable_code(stmt.else_branch[1]).changed
              [] stmt.tag \in {"While", "For"} -> remove_unreachable_code(stmt.body).changed
              [] OTHER -> FALSE
    IN Pass(new_stmts,
            \/ Len(new_stmts) # Len(stmts)
            \/ \E i \in 1..Len(new_stmts) : Nested(new_stmts[i]))

RECURSIVE collect_used_vars_expr(_)
RECURSIVE collect_used_vars_stmt(_)

collect_used_vars_expr(expr) ==
    CASE expr.tag = "Ident" -> {expr.name}
      [] expr.tag = "Binary" ->
            collect_used_vars_expr(expr.left) \cup collect_used_vars_expr(expr.right)
      [] expr.tag = "Unary" -> collect_used_vars_expr(expr.expr)
      [] expr.tag = "Call" ->
            collect_used_vars_expr(expr.callee)
              \cup UNION {collect_used_vars_expr(expr.args[i]) : i \in 1..Len(expr.args)}
      [] expr.tag = "Index" ->
            collect_used_vars_expr(expr.target) \cup collect_used_vars_expr(expr.index)
      [] expr.tag = "Member" -> collect_used_vars_expr(expr.target)
      [] expr.tag = "Array" ->
            UNION {collect_used_vars_expr(expr.elems[i]) : i \in 1..Len(expr.elems)}
      [] expr.tag = "Tuple" ->
            UNION {collect_used_vars_expr(expr.elems[i].value) : i \in 1..Len(expr.elems)}
      [] expr.tag = "Range" ->
            collect_used_vars_expr(expr.low) \cup collect_used_vars_expr(expr.high)
      [] expr.tag = "Func" ->
            IF expr.body.kind = "Expr" THEN collect_used_vars_expr(expr.body.expr)
            ELSE UNION {collect_used_vars_stmt(expr.body.stmts[i]) :
                          i \in 1..Len(expr.body.stmts)}
      [] OTHER -> {}

collect_used_vars_stmt(stmt) ==
    CASE stmt.tag = "VarDecl" -> collect_used_vars_expr(stmt.init)
      [] stmt.tag = "Assign" ->
            collect_used_vars_expr(stmt.target) \cup collect_used_vars_expr(stmt.value)
      [] stmt.tag = "Print" ->
            UNION {collect_used_vars_expr(stmt.args[i]) : i \in 1..Len(stmt.args)}
      [] stmt.tag = "If" ->
            collect_used_vars_expr(stmt.cond)
              \cup UNION {collect_used_vars_stmt(stmt.then_branch[i]) :
                            i \in 1..Len(stmt.then_branch)}
              \cup (IF stmt.else_branch # NoOpt
                    THEN UNION {collect_used_vars_stmt(stmt.else_branch[1][i]) :
                                  i \in 1..Len(stmt.else_branch[1])}
                    ELSE {})
      [] stmt.tag = "While" ->
            collect_used_vars_expr(stmt.cond)
              \cup UNION {collect_used_vars_stmt(stmt.body[i]) : i \in 1..Len(stmt.body)}
      [] stmt.tag = "For" ->
            {stmt.var} \cup collect_used_vars_expr(stmt.iterable)
              \cup UNION {collect_used_vars_stmt(stmt.body[i]) : i \in 1..Len(stmt.body)}
      [] stmt.tag = "Return" ->
            IF stmt.expr # NoOpt THEN collect_used_vars_expr(stmt.expr[1]) ELSE {}
      [] stmt.tag = "Expr" -> collect_used_vars_expr(stmt.expr)
      [] OTHER -> {}

collect_used_vars(stmts) == UNION {collect_used_vars_stmt(stmts[i]) : i \in 1..Len(stmts)}

\* remove_unused_variables without its changed = true
remove_unused_variables_unreported(stmts) ==
    LET used_vars == collect_used_vars(stmts)
        Keep(stmt) == ~(stmt.tag = "VarDecl" /\ stmt.name \notin used_vars)
    IN Pass(SelectSeq(stmts, Keep), FALSE)

remove_unused_variables(stmts) ==
    LET used_vars == collect_used_vars(stmts)
        Keep(stmt) == ~(stmt.tag = "VarDecl" /\ stmt.name \notin used_vars)
    IN Pass(SelectSeq(stmts, Keep), \E i \in 1..Len(stmts) : ~Keep(stmts[i]))

\* One iteration of the loop of Optimizer::optimize: the program it leaves
\* and the value of changed at its end
OptimizeIteration(stmts) ==
    LET shadowed_vars == collect_shadowed_vars(stmts)
        constants == collect_constants(stmts, shadowed_vars)
        p1 == propagate_constants(stmts, constants)
        p2 == fold_constants(p1.stmts)
        p3 == simplify_conditionals(p2.stmts)
        p4 == remove_unreachable_code(p3.stmts)
        p5 == remove_unused_variables(p4.stmts)
    IN Pass(p5.stmts,
            p1.changed \/ p2.changed \/ p3.changed \/ p4.changed \/ p5.changed)

-----------------------------------------------------------------------------
(* lexer.rs and parser.rs.  A source text is the sequence of its lexemes,  *)
(* the strings of characters that next_token turns into one token each: a  *)
(* run of digits, a run of letters, an operator, a delimiter or a line     *)
(* break.  A token is a record whose field tok names the variant of Token. *)

\* lex_identifier without the keyword table
lex_identifier_no_keywords(s) == [tok |-> "Identifier", s |-> s]

\* Lexer::lex_identifier: a word is a keyword of the table or an Identifier
lex_identifier(s) ==
    LET keywords ==
            ("var" :> "Var") @@ ("if" :> "If") @@ ("func" :> "Func") @@ ("is" :> "Is")
              @@ ("then" :> "Then") @@ ("else" :> "Else") @@ ("end" :> "End")
              @@ ("while" :> "While") @@ ("for" :> "For") @@ ("loop" :> "Loop")
              @@ ("exit" :> "Exit") @@ ("return" :> "Return") @@ ("print" :> "Print")
              @@ ("true" :> "True") @@ ("false" :> "False") @@ ("none" :> "None")
              @@ ("and" :> "And") @@ ("or" :> "Or") @@ ("xor" :> "Xor")
              @@ ("not" :> "Not") @@ ("in" :> "In")
    IN IF s \in DOMAIN keywords THEN [tok |-> keywords[s]]
       ELSE [tok |-> "Identifier", s |-> s]

\* Lexer::next_token on one lexeme: an operator or delimiter, a number
\* (lex_number: the integer whose digits the lexeme is), or a word
next_token(lexeme) ==
    LET symbols ==
            ("\n" :> "Newline") @@ ("+" :> "Plus") @@ ("-" :> "Minus") @@ ("*" :> "Star")
              @@ ("/" :> "Slash") @@ ("/=" :> "NotEqual") @@ ("=" :> "Equal")
              @@ ("=>" :> "Arrow") @@ ("<" :> "Less") @@ ("<=" :> "LessEqual")
              @@ (">" :> "Greater") @@ (">=" :> "GreaterEqual") @@ (":=" :> "Assign")
              @@ ("(" :> "LParen") @@ (")" :> "RParen") @@ ("{" :> "LBrace")
              @@ ("}" :> "RBrace") @@ ("[" :> "LBracket") @@ ("]" :> "RBracket")
              @@ ("," :> "Comma") @@ (";" :> "Semicolon") @@ (".." :> "Range")
              @@ ("." :> "Dot")
        numbers == {n \in 0..100 : IntToString(n) = lexeme}
    IN CASE lexeme \in DOMAIN symbols -> [tok |-> symbols[lexeme]]
         [] numbers # {} -> [tok |-> "Integer", n |-> CHOOSE n \in numbers : TRUE]
         [] OTHER -> lex_identifier(lexeme)

\* Parser::new: the tokens of the source up to and with EOF
ParserNew(lexemes) ==
    [tokens |-> [i \in 1..Len(lexemes) |-> next_token(lexemes[i])] \o <<[tok |-> "EOF"]>>,
     pos |-> 1]

\* The methods of Parser.  parse(<<method, arguments...>>, p) is the result
\* of the method on the parser p: [ok |-> TRUE, p, node] for Ok(node) with
\* the parser as the call leaves it, [ok |-> FALSE, p] for Err.  The loops
\* of parse_block_until, parse_expression, parse_factor, parse_term and
\* parse_reference_primary and the comma-separated lists are the methods
\* whose name ends in _loop or _list, called with what the loop has built.
RECURSIVE parse(_, _)
parse(call, p) ==
    LET method == call[1]
        peek(q) == IF q.pos <= Len(q.tokens) THEN q.tokens[q.pos] ELSE [tok |-> "EOF"]
        advance(q) == IF q.pos <= Len(q.tokens) THEN [q EXCEPT !.pos = @ + 1] ELSE q
        Parsed(q, node) == [ok |-> TRUE, p |-> q, node |-> node]
        Failed(q) == [ok |-> FALSE, p |-> q]
        \* self.expect(tok)?; then Ok(node)
        Expect(q, tok, node) ==
            IF peek(q).tok = tok THEN Parsed(advance(q), node) ELSE Failed(q)
        consume_trivia(q) ==
            LET trivia(i) == q.tokens[i].tok \in {"Newline", "Comment", "Semicolon"}
            IN [q EXCEPT !.pos = CHOOSE i \in q.pos..(Len(q.tokens) + 1) :
                                    /\ i > Len(q.tokens) \/ ~trivia(i)
                                    /\ \A j \in q.pos..(i - 1) : trivia(j)]
        relation == ("Less" :> "Lt") @@ ("LessEqual" :> "Le") @@ ("Greater" :> "Gt")
                      @@ ("GreaterEqual" :> "Ge") @@ ("Equal" :> "Eq")
                      @@ ("NotEqual" :> "Ne") @@ ("Is" :> "Is")
        factor == ("Plus" :> "Add") @@ ("Minus" :> "Sub")
        term == ("Star" :> "Mul") @@ ("Slash" :> "Div")
    IN
    CASE method = "parse_program" -> parse(<<"parse_block_until", {}>>, p)
      [] method = "parse_block_until" ->
            parse(<<"parse_block_until_loop", call[2], <<>>>>, consume_trivia(p))
      [] method = "parse_block_until_loop" ->
            IF peek(p).tok \in call[2] \cup {"EOF"} THEN Parsed(p, call[3])
            ELSE LET stmt == parse(<<"parse_stmt">>, p) IN
                 IF ~stmt.ok THEN stmt
                 ELSE parse(<<"parse_block_until_loop", call[2], Append(call[3], stmt.node)>>,
                            consume_trivia(stmt.p))
      [] method = "parse_stmt" ->
            CASE peek(p).tok = "Var" -> parse(<<"parse_var_decl">>, p)
              [] peek(p).tok = "Print" -> parse(<<"parse_print">>, p)
              [] peek(p).tok = "If" -> parse(<<"parse_if">>, p)
              [] peek(p).tok = "While" -> parse(<<"parse_while">>, p)
              [] peek(p).tok = "For" -> parse(<<"parse_for">>, p)
              [] peek(p).tok = "Return" -> parse(<<"parse_return">>, p)
              [] peek(p).tok = "Exit" -> Parsed(advance(p), Exit)
              [] OTHER ->
                    LET expr == parse(<<"parse_expression">>, p) IN
                    IF ~expr.ok THEN expr
                    ELSE IF peek(expr.p).tok = "Assign"
                    THEN LET value == parse(<<"parse_expression">>, advance(expr.p)) IN
                         IF ~value.ok THEN value
                         ELSE Parsed(value.p, Assign(expr.node, value.node))
                    ELSE Parsed(expr.p, ExprStmt(expr.node))
      [] method = "parse_var_decl" ->
            IF peek(p).tok # "Var" THEN Failed(p)
            ELSE IF peek(advance(p)).tok # "Identifier" THEN Failed(advance(advance(p)))
            ELSE LET name == peek(advance(p)).s
                     named == advance(advance(p))
                 IN IF peek(named).tok = "Assign"
                    THEN LET init == parse(<<"parse_expression">>, advance(named)) IN
                         IF ~init.ok THEN init
                         ELSE Parsed(init.p, VarDecl(name, init.node))
                    ELSE Parsed(named, VarDecl(name, None))
      [] method = "parse_print" ->
            IF peek(p).tok # "Print" THEN Failed(p)
            ELSE LET args == parse(<<"expression_list", <<>>>>, advance(p)) IN
                 IF ~args.ok THEN args ELSE Parsed(args.p, PrintStmt(args.node))
      [] method = "expression_list" ->
            LET expr == parse(<<"parse_expression">>, p) IN
            IF ~expr.ok THEN expr
            ELSE IF peek(expr.p).tok = "Comma"
            THEN parse(<<"expression_list", Append(call[2], expr.node)>>, advance(expr.p))
            ELSE Parsed(expr.p, Append(call[2], expr.node))
      [] method = "parse_if" ->
            IF peek(p).tok # "If" THEN Failed(p)
            ELSE LET cond == parse(<<"parse_expression">>, advance(p)) IN
                 IF ~cond.ok THEN cond
                 ELSE IF peek(cond.p).tok = "Arrow"
                 THEN LET stmt == parse(<<"parse_stmt">>, advance(cond.p)) IN
                      IF ~stmt.ok THEN stmt
                      ELSE Parsed(stmt.p, If(cond.node, <<stmt.node>>, NoOpt))
                 ELSE IF peek(cond.p).tok # "Then" THEN Failed(cond.p)
                 ELSE LET then_branch ==
                              parse(<<"parse_block_until", {"Else", "End"}>>, advance(cond.p))
                      IN IF ~then_branch.ok THEN then_branch
                         ELSE IF peek(then_branch.p).tok = "Else"
                         THEN LET else_branch ==
                                      parse(<<"parse_block_until", {"End"}>>,
                                            advance(then_branch.p))
                              IN IF ~else_branch.ok THEN else_branch
                                 ELSE Expect(else_branch.p, "End",
                                             If(cond.node, then_branch.node,
                                                Some(else_branch.node)))
                         ELSE Expect(then_branch.p, "End",
                                     If(cond.node, then_branch.node, NoOpt))
      [] method = "parse_while" ->
            IF peek(p).tok # "While" THEN Failed(p)
            ELSE LET cond == parse(<<"parse_expression">>, advance(p)) IN
                 IF ~cond.ok THEN cond
                 ELSE IF peek(cond.p).tok # "Loop" THEN Failed(cond.p)
                 ELSE LET body == parse(<<"parse_block_until", {"End"}>>, advance(cond.p)) IN
                      IF ~body.ok THEN body
                      ELSE Expect(body.p, "End", While(cond.node, body.node))
      [] method = "parse_for" ->
            IF peek(p).tok # "For" THEN Failed(p)
            ELSE LET has_var == peek(advance(p)).tok = "Identifier"
                     var == IF has_var THEN peek(advance(p)).s ELSE "_"
                     named == IF has_var THEN advance(advance(p)) ELSE advance(p)
                     start == parse(<<"parse_expression">>,
                                    IF has_var /\ peek(named).tok = "In"
                                    THEN advance(named) ELSE named)
                 IN IF ~start.ok THEN start
                    ELSE LET end == IF peek(start.p).tok = "Range"
                                    THEN parse(<<"parse_expression">>, advance(start.p))
                                    ELSE start
                         IN IF ~end.ok THEN end
                            ELSE LET iterable == IF peek(start.p).tok = "Range"
                                                 THEN Range(start.node, end.node)
                                                 ELSE start.node
                                 IN IF peek(end.p).tok # "Loop" THEN Failed(end.p)
                                    ELSE LET body == parse(<<"parse_block_until", {"End"}>>,
                                                           advance(end.p))
                                         IN IF ~body.ok THEN body
                                            ELSE Expect(body.p, "End",
                                                        For(var, iterable, body.node))
      [] method = "parse_return" ->
            IF peek(p).tok # "Return" THEN Failed(p)
            ELSE IF peek(advance(p)).tok \in {"End", "Else", "Loop", "Newline", "Semicolon"}
            THEN Parsed(advance(p), Return(NoOpt))
            ELSE LET expr == parse(<<"parse_expression">>, advance(p)) IN
                 IF ~expr.ok THEN expr ELSE Parsed(expr.p, Return(Some(expr.node)))
      [] method = "parse_expression" ->
            LET node == parse(<<"parse_relation">>, p) IN
            IF ~node.ok THEN node ELSE parse(<<"parse_expression_loop", node.node>>, node.p)
      [] method = "parse_expression_loop" ->
            IF peek(p).tok \in {"Or", "And", "Xor"}
            THEN LET rhs == parse(<<"parse_relation">>, advance(p)) IN
                 IF ~rhs.ok THEN rhs
                 ELSE parse(<<"parse_expression_loop", Binary(call[2], peek(p).tok, rhs.node)>>,
                            rhs.p)
            ELSE Parsed(p, call[2])
      [] method = "parse_relation" ->
            LET node == parse(<<"parse_factor">>, p) IN
            IF ~node.ok THEN node
            ELSE IF peek(node.p).tok \in DOMAIN relation
            THEN LET rhs == parse(<<"parse_factor">>, advance(node.p)) IN
                 IF ~rhs.ok THEN rhs
                 ELSE Parsed(rhs.p, Binary(node.node, relation[peek(node.p).tok], rhs.node))
            ELSE node
      [] method = "parse_factor" ->
            LET node == parse(<<"parse_term">>, p) IN
            IF ~node.ok THEN node ELSE parse(<<"parse_factor_loop", node.node>>, node.p)
      [] method = "parse_factor_loop" ->
            IF peek(p).tok \in DOMAIN factor
            THEN LET rhs == parse(<<"parse_term">>, advance(p)) IN
                 IF ~rhs.ok THEN rhs
                 ELSE parse(<<"parse_factor_loop",
                              Binary(call[2], factor[peek(p).tok], rhs.node)>>, rhs.p)
            ELSE Parsed(p, call[2])
      [] method = "parse_term" ->
            LET node == parse(<<"parse_unary">>, p) IN
            IF ~node.ok THEN node ELSE parse(<<"parse_term_loop", node.node>>, node.p)
      [] method = "parse_term_loop" ->
            IF peek(p).tok \in DOMAIN term
            THEN LET rhs == parse(<<"parse_unary">>, advance(p)) IN
                 IF ~rhs.ok THEN rhs
                 ELSE parse(<<"parse_term_loop",
                              Binary(call[2], term[peek(p).tok], rhs.node)>>, rhs.p)
            ELSE Parsed(p, call[2])
      [] method = "parse_unary" ->
            CASE peek(p).tok = "Plus" -> parse(<<"parse_unary">>, advance(p))
              [] peek(p).tok \in {"Minus", "Not"} ->
                    LET expr == parse(<<"parse_unary">>, advance(p)) IN
                    IF ~expr.ok THEN expr
                    ELSE Parsed(expr.p,
                                Unary(IF peek(p).tok = "Minus" THEN "Neg" ELSE "Not", expr.node))
              [] OTHER -> parse(<<"parse_reference_primary">>, p)
      [] method = "parse_reference_primary" ->
            LET t == peek(p)
                expr ==
                    CASE t.tok = "Integer" -> Parsed(advance(p), Integer(t.n))
                      [] t.tok = "True" -> Parsed(advance(p), Bool(TRUE))
                      [] t.tok = "False" -> Parsed(advance(p), Bool(FALSE))
                      [] t.tok = "None" -> Parsed(advance(p), None)
                      [] t.tok = "String" -> Parsed(advance(p), String(t.s))
                      [] t.tok = "Identifier" -> Parsed(advance(p), Ident(t.s))
                      [] t.tok = "LParen" ->
                            LET e == parse(<<"parse_expression">>, advance(p)) IN
                            IF ~e.ok THEN e ELSE Expect(e.p, "RParen", e.node)
                      [] t.tok = "LBracket" -> parse(<<"parse_array_literal">>, p)
                      [] t.tok = "LBrace" -> parse(<<"parse_object_literal">>, p)
                      [] t.tok = "Func" -> parse(<<"parse_func_literal">>, p)
                      [] OTHER -> Failed(p)
            IN IF ~expr.ok THEN expr
               ELSE parse(<<"parse_reference_primary_loop", expr.node>>, expr.p)
      [] method = "parse_reference_primary_loop" ->
            CASE peek(p).tok = "LParen" ->
                    LET args == IF peek(advance(p)).tok = "RParen"
                                THEN Parsed(advance(p), <<>>)
                                ELSE parse(<<"expression_list", <<>>>>, advance(p))
                    IN IF ~args.ok THEN args
                       ELSE IF peek(args.p).tok # "RParen" THEN Failed(args.p)
                       ELSE parse(<<"parse_reference_primary_loop", Call(call[2], args.node)>>,
                                  advance(args.p))
              [] peek(p).tok = "LBracket" ->
                    LET index == parse(<<"parse_expression">>, advance(p)) IN
                    IF ~index.ok THEN index
                    ELSE IF peek(index.p).tok # "RBracket" THEN Failed(index.p)
                    ELSE parse(<<"parse_reference_primary_loop", Index(call[2], index.node)>>,
                               advance(index.p))
              [] peek(p).tok = "Dot" ->
                    LET field == peek(advance(p))
                        rest == advance(advance(p))
                    IN CASE field.tok = "Identifier" ->
                               parse(<<"parse_reference_primary_loop",
                                       Member(call[2], field.s)>>, rest)
                         [] field.tok = "Integer" ->
                               parse(<<"parse_reference_primary_loop",
                                       Member(call[2], IntToString(field.n))>>, rest)
                         [] OTHER -> Failed(rest)
              [] OTHER -> Parsed(p, call[2])
      [] method = "parse_array_literal" ->
            IF peek(p).tok # "LBracket" THEN Failed(p)
            ELSE LET elems == IF peek(advance(p)).tok = "RBracket"
                              THEN Parsed(advance(p), <<>>)
                              ELSE parse(<<"expression_list", <<>>>>, advance(p))
                 IN IF ~elems.ok THEN elems
                    ELSE Expect(elems.p, "RBracket", Array(elems.node))
      [] method = "parse_object_literal" ->
            IF peek(p).tok # "LBrace" THEN Failed(p)
            ELSE LET fields == IF peek(advance(p)).tok = "RBrace"
                               THEN Parsed(advance(p), <<>>)
                               ELSE parse(<<"object_field_list", <<>>>>, advance(p))
                 IN IF ~fields.ok THEN fields
                    ELSE Expect(fields.p, "RBrace", [tag |-> "Object", fields |-> fields.node])
      [] method = "object_field_list" ->
            IF peek(p).tok # "Identifier" THEN Failed(advance(p))
            ELSE IF peek(advance(p)).tok # "Assign" THEN Failed(advance(p))
            ELSE LET value == parse(<<"parse_expression">>, advance(advance(p)))
                     fields == Append(call[2], <<peek(p).s, value.node>>)
                 IN IF ~value.ok THEN value
                    ELSE IF peek(value.p).tok = "Comma"
                    THEN parse(<<"object_field_list", fields>>, advance(value.p))
                    ELSE Parsed(value.p, fields)
      [] method = "parse_func_literal" ->
            IF peek(p).tok # "Func" THEN Failed(p)
            ELSE IF peek(advance(p)).tok # "LParen" THEN Failed(advance(p))
            ELSE LET opened == advance(advance(p))
                     params == IF peek(opened).tok = "RParen" THEN Parsed(opened, <<>>)
                               ELSE parse(<<"expect_ident_list", <<>>>>, opened)
                 IN IF ~params.ok THEN params
                    ELSE IF peek(params.p).tok # "RParen" THEN Failed(params.p)
                    ELSE LET closed == advance(params.p) IN
                         CASE peek(closed).tok = "Arrow" ->
                                 LET body_expr == parse(<<"parse_expression">>, advance(closed))
                                 IN IF ~body_expr.ok THEN body_expr
                                    ELSE Parsed(body_expr.p,
                                                Func(params.node, BodyExpr(body_expr.node)))
                           [] peek(closed).tok = "Is" ->
                                 LET body == parse(<<"parse_block_until", {"End"}>>,
                                                   advance(closed))
                                 IN IF ~body.ok THEN body
                                    ELSE Expect(body.p, "End",
                                                Func(params.node, BodyBlock(body.node)))
                           [] OTHER -> Failed(closed)
      [] method = "expect_ident_list" ->
            IF peek(p).tok # "Identifier" THEN Failed(advance(p))
            ELSE IF peek(advance(p)).tok = "Comma"
            THEN parse(<<"expect_ident_list", Append(call[2], peek(p).s)>>, advance(advance(p)))
            ELSE Parsed(advance(p), Append(call[2], peek(p).s))

-----------------------------------------------------------------------------
(* Programs of the specification's scenarios and of the tests.             *)

\* var i := 1; while i <= 3 loop print i; i := i + 1 end
WhileProgram ==
    <<VarDecl("i", Integer(1)),
      While(Binary(Ident("i"), "Le", Integer(3)),
            <<PrintStmt(<<Ident("i")>>),
              Assign(Ident("i"), Binary(Ident("i"), "Add", Integer(1)))>>)>>

\* var count := 0; while true loop print count; count := count + 1;
\*   if count >= 3 then exit end end          (test_exit_loop)
ExitLoopProgram ==
    <<VarDecl("count", Integer(0)),
      While(Bool(TRUE),
            <<PrintStmt(<<Ident("count")>>),
              Assign(Ident("count"), Binary(Ident("count"), "Add", Integer(1))),
              If(Binary(Ident("count"), "Ge", Integer(3)), <<Exit>>, NoOpt)>>)>>

\* var mk := func() is var c := 0; return func() is c := c + 1; return c end end;
\* var k := mk(); print k(); print k(); print k()
CounterProgram ==
    <<VarDecl("mk", Func(<<>>, BodyBlock(
          <<VarDecl("c", Integer(0)),
            Return(Some(Func(<<>>, BodyBlock(
                <<Assign(Ident("c"), Binary(Ident("c"), "Add", Integer(1))),
                  Return(Some(Ident("c")))>>))))>>))),
      VarDecl("k", Call(Ident("mk"), <<>>)),
      PrintStmt(<<Call(Ident("k"), <<>>)>>),
      PrintStmt(<<Call(Ident("k"), <<>>)>>),
      PrintStmt(<<Call(Ident("k"), <<>>)>>)>>

\* var factorial := func(n) is if n <= 1 then return 1 end;
\*   return n * factorial(n - 1) end; print factorial(a)
FactorialProgram(a) ==
    <<VarDecl("factorial", Func(<<"n">>, BodyBlock(
          <<If(Binary(Ident("n"), "Le", Integer(1)), <<Return(Some(Integer(1)))>>, NoOpt),
            Return(Some(Binary(Ident("n"), "Mul",
                Call(Ident("factorial"), <<Binary(Ident("n"), "Sub", Integer(1))>>))))>>))),
      PrintStmt(<<Call(Ident("factorial"), <<Integer(a)>>)>>)>>

\* var x := 1; if true then x := MaxLit end; print x
BlockAssignProgram ==
    <<VarDecl("x", Integer(1)),
      If(Bool(TRUE), <<Assign(Ident("x"), Integer(MaxLit))>>, NoOpt),
      PrintStmt(<<Ident("x")>>)>>

\* var f := func() is while true loop return v end end; print f()
ReturnInWhileProgram(v) ==
    <<VarDecl("f", Func(<<>>, BodyBlock(
          <<While(Bool(TRUE), <<Return(Some(Integer(v)))>>)>>))),
      PrintStmt(<<Call(Ident("f"), <<>>)>>)>>

\* var f := func() is for i in 1..MaxLit loop if true then return v end end end;
\* print f()
ReturnInForProgram(v) ==
    <<VarDecl("f", Func(<<>>, BodyBlock(
          <<For("i", Range(Integer(1), Integer(MaxLit)),
                <<If(Bool(TRUE), <<Return(Some(Integer(v)))>>, NoOpt)>>)>>))),
      PrintStmt(<<Call(Ident("f"), <<>>)>>)>>

\* var z := 0; print false and 1 / z        (op = "And")
\* var z := 0; print true or 1 / z          (op = "Or")
ShortCircuitProgram(op) ==
    <<VarDecl("z", Integer(0)),
      PrintStmt(<<Binary(Bool(op = "Or"), op,
                         Binary(Integer(1), "Div", Ident("z")))>>)>>

\* var f := func() is exit end; while f() loop end
ExitInConditionProgram ==
    <<VarDecl("f", Func(<<>>, BodyBlock(<<Exit>>))),
      While(Call(Ident("f"), <<>>), <<>>)>>

\* var a := 1; var b := a; print MaxLit
UnusedChainProgram ==
    <<VarDecl("a", Integer(1)), VarDecl("b", Ident("a")),
      PrintStmt(<<Integer(MaxLit)>>)>>

\* One reference to the undeclared name q, at the given position of a program
UndeclaredProgram(position) ==
    CASE position = "initializer" -> <<VarDecl("a", Ident("q"))>>
      [] position = "target" -> <<Assign(Ident("q"), Integer(1))>>
      [] position = "value" ->
            <<VarDecl("a", Integer(1)), Assign(Ident("a"), Ident("q"))>>
      [] position = "condition" -> <<If(Ident("q"), <<>>, NoOpt)>>
      [] position = "argument" ->
            <<VarDecl("f", Func(<<"p">>, BodyExpr(Ident("p")))),
              PrintStmt(<<Call(Ident("f"), <<Ident("q")>>)>>)>>
      [] position = "body" ->
            <<VarDecl("f", Func(<<>>, BodyBlock(<<PrintStmt(<<Ident("q")>>)>>)))>>
      [] position = "return" ->
            <<VarDecl("f", Func(<<>>, BodyBlock(<<Return(Some(Ident("q")))>>)))>>

\* A second declaration of a declared name: in the same frame ("same",
\* "same_function"), in a nested frame ("if", "while", "for", "function"),
\* and a use of the outer function f after the frame that shadowed it
\* ("restored").  "same" is test_semantic_variable_redeclaration.
RedeclareProgram(kind) ==
    CASE kind = "same" -> <<VarDecl("x", Integer(1)), VarDecl("x", Integer(2))>>
      [] kind = "same_function" ->
            <<VarDecl("f", Func(<<>>, BodyExpr(Integer(1)))),
              VarDecl("f", Func(<<>>, BodyExpr(Integer(2))))>>
      [] kind = "if" ->
            <<VarDecl("x", Integer(1)),
              If(Bool(TRUE), <<VarDecl("x", Integer(2))>>, Some(<<VarDecl("x", Integer(0))>>)),
              PrintStmt(<<Ident("x")>>)>>
      [] kind = "while" ->
            <<VarDecl("x", Integer(1)),
              While(Bool(FALSE), <<VarDecl("x", Integer(2))>>),
              PrintStmt(<<Ident("x")>>)>>
      [] kind = "for" ->
            <<VarDecl("x", Integer(1)),
              For("i", Range(Integer(1), Integer(1)), <<VarDecl("x", Integer(2))>>),
              PrintStmt(<<Ident("x")>>)>>
      [] kind = "function" ->
            <<VarDecl("x", Integer(1)),
              VarDecl("f", Func(<<>>, BodyBlock(<<VarDecl("x", Integer(2))>>))),
              PrintStmt(<<Ident("x")>>)>>
      [] kind = "restored" ->
            <<VarDecl("f", Func(<<"a">>, BodyExpr(Ident("a")))),
              If(Bool(TRUE), <<VarDecl("f", Integer(1))>>, NoOpt),
              PrintStmt(<<Call(Ident("f"), <<>>)>>)>>

\* A call with nargs arguments of a function of two parameters whose body
\* prints "body": through its name ("direct", test_wrong_argument_count),
\* through an array element ("array") and through a tuple element ("tuple")
ArityProgram(via, nargs) ==
    LET f == Func(<<"a", "b">>,
                  BodyBlock(<<PrintStmt(<<String("body")>>), Return(Some(Ident("a")))>>))
        args == [i \in 1..nargs |-> Integer(1)]
    IN CASE via = "direct" ->
                <<VarDecl("f", f), PrintStmt(<<Call(Ident("f"), args)>>)>>
         [] via = "array" ->
                <<VarDecl("fs", Array(<<f>>)),
                  PrintStmt(<<Call(Index(Ident("fs"), Integer(1)), args)>>)>>
         [] via = "tuple" ->
                <<VarDecl("t", Tuple(<<TupleElement(Some("g"), f)>>)),
                  PrintStmt(<<Call(Member(Ident("t"), "g"), args)>>)>>

\* print of element k of the array [10, 20, .. 10 * n] (test_array_access,
\* test_array_out_of_bounds): indexed in the literal, or in a variable by
\* an index held in a variable
IndexProgram(form, n, k) ==
    LET arr == Array([i \in 1..n |-> Integer(10 * i)])
    IN IF form = "literal"
       THEN <<PrintStmt(<<Index(arr, Integer(k))>>)>>
       ELSE <<VarDecl("arr", arr), VarDecl("i", Integer(k)),
              PrintStmt(<<Index(Ident("arr"), Ident("i"))>>)>>

\* var x := 1; <construct>; print x, where the body of the construct (an if
\* branch, a loop body, or the body of a function that is called) shadows x,
\* declares y, prints x, and then ends normally, with a runtime error (the
\* undeclared q), with return or with exit
ScopeProgram(kind, outcome) ==
    LET ending == CASE outcome = "normal" -> <<>>
                    [] outcome = "error" -> <<PrintStmt(<<Ident("q")>>)>>
                    [] outcome = "return" -> <<Return(NoOpt)>>
                    [] outcome = "exit" -> <<Exit>>
        body == <<VarDecl("x", Integer(2)), VarDecl("y", Integer(3)),
                  PrintStmt(<<Ident("x")>>)>> \o ending
        construct ==
            CASE kind = "if" -> <<If(Bool(TRUE), body, NoOpt)>>
              [] kind = "while" -> <<While(Bool(TRUE), body)>>
              [] kind = "for" -> <<For("i", Range(Integer(1), Integer(1)), body)>>
              [] kind = "function" ->
                    <<VarDecl("f", Func(<<>>, BodyBlock(body))),
                      ExprStmt(Call(Ident("f"), <<>>))>>
    IN <<VarDecl("x", Integer(1))>> \o construct \o <<PrintStmt(<<Ident("x")>>)>>

\* var x := l; var y := r; print x / y
DivisionProgram(l, r) ==
    <<VarDecl("x", l), VarDecl("y", r),
      PrintStmt(<<Binary(Ident("x"), "Div", Ident("y"))>>)>>

\* The dividends 10 and 2.5 over the divisors 0, 0.0, 2 and 0.5
DivisionOperands ==
    [l : {Integer(10), Real(5, 2)}, r : {Integer(0), Real(0, 1), Integer(2), Real(1, 2)}]

\* test_tuple_indexed_access: var tuple := {a := 1, b := 2, c := 3};
\* print tuple.k, and the same over the tuple {1, 2, 3} of unnamed elements
TupleAccessProgram(named, k) ==
    LET elem(name, v) == TupleElement(IF named THEN Some(name) ELSE NoOpt, Integer(v))
    IN <<VarDecl("tuple", Tuple(<<elem("a", 1), elem("b", 2), elem("c", 3)>>)),
         PrintStmt(<<Member(Ident("tuple"), IntToString(k))>>)>>

\* test_tuple_concatenation
TupleConcatProgram ==
    <<VarDecl("t1", Tuple(<<TupleElement(Some("a"), Integer(1)),
                            TupleElement(Some("b"), Integer(2))>>)),
      VarDecl("t2", Tuple(<<TupleElement(Some("c"), Integer(3))>>)),
      VarDecl("t3", Binary(Ident("t1"), "Add", Ident("t2"))),
      PrintStmt(<<Member(Ident("t3"), "a")>>),
      PrintStmt(<<Member(Ident("t3"), "c")>>)>>

\* var x := 1; var f := func() is x := 2 end; f(); print x
AssignedInFunctionProgram ==
    <<VarDecl("x", Integer(1)),
      VarDecl("f", Func(<<>>, BodyBlock(<<Assign(Ident("x"), Integer(2))>>))),
      ExprStmt(Call(Ident("f"), <<>>)),
      PrintStmt(<<Ident("x")>>)>>

\* test_array_assignment, with the assignment at the top level or in the
\* branch of an if, on a slot of an array or a field of a tuple:
\* var a := [10, 20]; a[2] := 99; print a[2]; print a[2]
\* var a := {f := 10}; if true then a.f := 99; print a.f end; print a.f
ContainerAssignProgram(form, nested) ==
    LET decl == IF form = "index"
                THEN VarDecl("a", Array(<<Integer(10), Integer(20)>>))
                ELSE VarDecl("a", Tuple(<<TupleElement(Some("f"), Integer(10))>>))
        slot == IF form = "index" THEN Index(Ident("a"), Integer(2))
                ELSE Member(Ident("a"), "f")
        assignment == <<Assign(slot, Integer(99)), PrintStmt(<<slot>>)>>
    IN <<decl>>
         \o (IF nested THEN <<If(Bool(TRUE), assignment, NoOpt)>> ELSE assignment)
         \o <<PrintStmt(<<slot>>)>>

\* print l op r, over the integer literals -(MaxLit + 1) .. MaxLit + 1 (a
\* negative one is parsed as the negation of a literal) and the operators
\* simplify_expr folds on integers, and over the Boolean literals and and,
\* or, xor, not
FoldPrograms ==
    LET Literal(n) == IF n < 0 THEN Unary("Neg", Integer(-n)) ELSE Integer(n)
        range == (-(MaxLit + 1))..(MaxLit + 1)
    IN {<<PrintStmt(<<Binary(Literal(a), op, Literal(b))>>)>> :
            a \in range, b \in range,
            op \in {"Add", "Sub", "Mul", "Div", "Eq", "Ne", "Lt", "Le", "Gt", "Ge"}}
         \cup {<<PrintStmt(<<Binary(Bool(a), op, Bool(b))>>)>> :
                  a \in BOOLEAN, b \in BOOLEAN, op \in {"And", "Or", "Xor"}}
         \cup {<<PrintStmt(<<Unary("Not", Bool(a))>>)>> : a \in BOOLEAN}

-----------------------------------------------------------------------------
(* The bounded family of generated programs.                               *)

Lits == {Integer(n) : n \in 0..MaxLit} \cup {Bool(TRUE), Bool(FALSE), String("a")}
Atoms == Lits \cup {Ident("x"), Ident("y")}
BinOps == {"Add", "Sub", "Mul", "Div", "Eq", "Ne", "Lt", "Le", "Gt", "Ge", "And", "Or", "Xor"}
UnOps == {"Neg", "Not"}

\* Operands that simplify_expr rewrites below an operator it may leave
Inner ==
    {Binary(Ident("x"), "Mul", Integer(0)), Binary(Ident("y"), "Add", Integer(0)),
     Unary("Not", Bool(FALSE))}

Exprs ==
    Atoms \cup {Binary(a, op, b) : a \in Atoms, op \in BinOps, b \in Atoms}
          \cup {Unary(op, a) : op \in UnOps, a \in Atoms}
          \cup {Binary(a, op, Ident("y")) : a \in Inner, op \in BinOps}
          \cup {Unary(op, a) : op \in UnOps, a \in Inner}

\* var x := xl; var y := yl; print e; y := x
\* (x is never assigned; y is)
ExprProgram(xl, yl, e) ==
    <<VarDecl("x", xl), VarDecl("y", yl), PrintStmt(<<e>>), Assign(Ident("y"), Ident("x"))>>

ExprPrograms ==
    {ExprProgram(xl, yl, e) :
        xl \in {Integer(0), Integer(MaxLit), Bool(TRUE)},
        yl \in {Integer(1), Bool(FALSE)},
        e \in Exprs}

Conds ==
    {Bool(TRUE), Bool(FALSE), Ident("x"),
     Binary(Ident("x"), "Lt", Integer(MaxLit)),
     Binary(Integer(0), "Lt", Integer(MaxLit)),
     Binary(Binary(Ident("x"), "Mul", Integer(0)), "Sub", Integer(1))}

Blocks ==
    {<<>>,
     <<PrintStmt(<<Ident("x")>>)>>,
     <<Assign(Ident("x"), Integer(MaxLit))>>,
     <<VarDecl("x", Integer(MaxLit)), PrintStmt(<<Ident("x")>>)>>,
     <<VarDecl("z", Integer(0))>>,
     <<Exit>>,
     <<PrintStmt(<<String("a")>>), Exit, PrintStmt(<<Ident("x")>>)>>,
     <<If(Bool(TRUE), <<PrintStmt(<<Ident("x")>>)>>, NoOpt)>>}

Shapes ==
    {If(c, t, NoOpt) : c \in Conds, t \in Blocks}
      \cup {If(c, t, Some(e)) : c \in Conds, t \in Blocks, e \in Blocks}
      \cup {While(c, b) : c \in Conds, b \in Blocks}
      \cup {For("i", Range(Integer(1), Integer(MaxLit)), b) : b \in Blocks}
      \cup {For("_", None, b) : b \in Blocks}

Tails ==
    {<<PrintStmt(<<Ident("x")>>)>>,
     <<PrintStmt(<<Integer(1)>>), Exit, PrintStmt(<<Integer(MaxLit)>>)>>}

\* var x := xl; <statement>; <tail>
ShapePrograms ==
    {<<VarDecl("x", xl), s>> \o t : xl \in {Integer(1), Bool(FALSE)}, s \in Shapes, t \in Tails}

ScenarioPrograms ==
    {WhileProgram, ExitLoopProgram, CounterProgram, BlockAssignProgram,
     ExitInConditionProgram, UnusedChainProgram}
      \cup {FactorialProgram(a) : a \in 1..MaxLit}
      \cup {ReturnInWhileProgram(v) : v \in 1..MaxLit}
      \cup {ReturnInForProgram(v) : v \in 1..MaxLit}
      \cup {ShortCircuitProgram(op) : op \in {"And", "Or"}}
      \cup {UndeclaredProgram(position) :
                position \in {"initializer", "target", "value", "condition",
                              "argument", "body", "return"}}
      \cup {RedeclareProgram(kind) :
                kind \in {"same", "same_function", "if", "while", "for", "function",
                          "restored"}}
      \cup {ArityProgram(via, nargs) :
                via \in {"direct", "array", "tuple"}, nargs \in 0..(MaxLit + 1)}
      \cup {IndexProgram(form, n, k) :
                form \in {"literal", "variable"}, n \in 0..(MaxLit + 1),
                k \in 0..(MaxLit + 2)}
      \cup {ScopeProgram(kind, outcome) :
                kind \in {"if", "while", "for", "function"},
                outcome \in {"normal", "error", "return", "exit"}}
      \cup {DivisionProgram(d.l, d.r) : d \in DivisionOperands}
      \cup {TupleAccessProgram(named, k) : named \in BOOLEAN, k \in 1..3}
      \cup {TupleConcatProgram, AssignedInFunctionProgram}
      \cup {ContainerAssignProgram(form, nested) :
                form \in {"index", "member"}, nested \in BOOLEAN}
      \cup FoldPrograms

Programs == ExprPrograms \cup ShapePrograms \cup ScenarioPrograms

\* x := u1 2 o1 u2 3 o2 4, with the unary operators u1 and u2 (or none)
\* before the first two operands and the binary operators o1 and o2
PrecedenceSource(u1, o1, u2, o2) ==
    <<"x", ":=">> \o u1 \o <<"2", o1>> \o u2 \o <<"3", o2, "4">>

Prefixes == {<<>>, <<"-">>, <<"not">>}
Operators ==
    {"+", "-", "*", "/", "<", "=",
     "and", "or", "xor"}

\* test_is_operator_with_int_type: if x is int then print x end, and
\* test_is_operator_with_all_basic_types: x is int, as a statement
IsTypeSource(form, type) ==
    IF form = "if"
    THEN <<"if", "x", "is", type, "then",
           "print", "x", "end">>
    ELSE <<"x", "is", type>>

\* test_range_as_expression_in_variable, test_range_in_function_call and
\* test_range_in_for_loop_basic
RangeSource(form) ==
    CASE form = "var" -> <<"var", "range", ":=", "1", "..", "100">>
      [] form = "call" -> <<"process", "(", "1", "..", "10", ")">>
      [] form = "for" ->
            <<"\n", "for", "i", "in", "1", "..", "10",
              "loop", "\n", "print", "i", "\n", "end",
              "\n">>

\* not true and false
NotAndSource == <<"not", "true", "and", "false">>

Sources ==
    {PrecedenceSource(u1, o1, u2, o2) :
        u1 \in Prefixes, o1 \in Operators, u2 \in Prefixes, o2 \in Operators}
      \cup {IsTypeSource(form, type) :
               form \in {"if", "statement"},
               type \in {"int", "real", "bool", "string", "none"}}
      \cup {RangeSource(form) : form \in {"var", "call", "for"}}
      \cup {NotAndSource}

-----------------------------------------------------------------------------
(* The pipeline: parse, check, interpret, optimize, interpret, optimize     *)
(* again.                                                                  *)

NotRun == Done(InterpreterNew, [kind |-> "NotRun"])

Init ==
    /\ \/ source \in Sources /\ input = <<>> /\ pc = "parse"
       \/ source = <<>> /\ input \in Programs /\ pc = "check"
    /\ program = input
    /\ checker = SemanticCheckerNew
    /\ rechecked = SemanticCheckerNew
    /\ modified = FALSE
    /\ changed = FALSE
    /\ returned = <<>>
    /\ before = NotRun
    /\ after = NotRun

\* Parser::new(input).parse_program(): Ok(ast) goes on to the checker, Err
\* ends the pipeline
Parse ==
    /\ pc = "parse"
    /\ LET ast == parse(<<"parse_program">>, ParserNew(source)) IN
         IF ast.ok
         THEN /\ input' = ast.node
              /\ program' = ast.node
              /\ pc' = "check"
         ELSE /\ pc' = "parse_error"
              /\ UNCHANGED <<input, program>>
    /\ UNCHANGED <<source, checker, rechecked, modified, changed, returned, before, after>>

\* checker.check(&ast)
Check ==
    /\ pc = "check"
    /\ checker' = check(checker, program)
    /\ pc' = "check_again"
    /\ UNCHANGED <<source, input, program, rechecked, modified, changed, returned, before, after>>

\* checker.check(&ast) once more on the same instance: rechecked is the
\* checker as the second call leaves it
CheckAgain ==
    /\ pc = "check_again"
    /\ rechecked' = check(checker, program)
    /\ pc' = "interpret"
    /\ UNCHANGED <<source, input, program, checker, modified, changed, returned, before, after>>

\* Interpreter::new().interpret(&ast) on the program as parsed
InterpretBefore ==
    /\ pc = "interpret"
    /\ before' = interpret(program, InterpreterNew)
    /\ pc' = "optimize"
    /\ UNCHANGED <<source, input, program, checker, rechecked, modified, changed, returned, after>>

\* optimizer.optimize(&mut ast), up to its loop: self.modified = false
OptimizeCall ==
    /\ pc = "optimize"
    /\ modified' = FALSE
    /\ pc' = "optimize_loop"
    /\ UNCHANGED <<source, input, program, checker, rechecked, changed, returned, before, after>>

\* The passes of one iteration of the loop of optimize, which rewrite the
\* program in place and leave their verdict in changed
OptimizePasses ==
    /\ pc = "optimize_loop"
    /\ LET it == OptimizeIteration(program) IN
         /\ program' = it.stmts
         /\ changed' = it.changed
    /\ pc' = "optimize_test"
    /\ UNCHANGED <<source, input, checker, rechecked, modified, returned, before, after>>

\* if !changed { break } self.modified = true: the end of an iteration; the
\* break ends the call, which returns self.modified
OptimizeTest ==
    /\ pc = "optimize_test"
    /\ IF changed
       THEN /\ modified' = TRUE
            /\ pc' = "optimize_loop"
            /\ UNCHANGED returned
       ELSE /\ returned' = Append(returned, modified)
            /\ pc' = IF Len(returned) = 0 THEN "interpret_after" ELSE "done"
            /\ UNCHANGED modified
    /\ UNCHANGED <<source, input, program, checker, rechecked, changed, before, after>>

\* Interpreter::new().interpret(&ast) on the optimized program
InterpretAfter ==
    /\ pc = "interpret_after"
    /\ after' = interpret(program, InterpreterNew)
    /\ pc' = "optimize"
    /\ UNCHANGED <<source, input, program, checker, rechecked, modified, changed, returned, before>>

Next ==
    \/ Parse \/ Check \/ CheckAgain \/ InterpretBefore
    \/ OptimizeCall \/ OptimizePasses \/ OptimizeTest \/ InterpretAfter

Spec == Init /\ [][Next]_vars

\* optimize is sequential code: once the passes of an iteration are through,
\* the test that ends the iteration is executed
FairSpec == Spec /\ WF_vars(OptimizeTest)

-----------------------------------------------------------------------------
(* Properties of the pipeline.                                             *)

\* What the caller of interpret sees of a run: Ok, or the kind of the
\* InterpreterError it returned
Outcome(run) == IF run.sig.kind = "Err" THEN run.sig.err ELSE run.sig.kind

\* The run was made and ended within MaxSteps
Ended(run) == run.sig.kind \notin {"NotRun", "Running"}

\* C1: for every program that passes check, interpret before optimize and
\* interpret after optimize print the same lines and end with the same
\* outcome (success, or a runtime error of the same kind).
C1_OptimizePreservesBehaviour ==
    (CheckOk(checker) /\ Ended(before) /\ Ended(after)) =>
        (before.st.out = after.st.out /\ Outcome(before) = Outcome(after))

\* C2: optimize terminates on every program: its loop reaches the iteration
\* in which no pass reports a change, so the test that ends an iteration is
\* executed only finitely often.
C2_OptimizeTerminates == <>[](pc # "optimize_test")

\* C3: optimize is idempotent: called again on the program a first call left,
\* its first iteration changes nothing, so the call returns modified = false
\* and leaves the AST as it was.
C3_OptimizeIdempotent ==
    [][/\ (pc = "optimize_loop" /\ Len(returned) = 1) =>
             (program' = program /\ changed' = FALSE)
       /\ (pc = "optimize_test" /\ Len(returned) = 1) =>
             returned' = <<returned[1], FALSE>>]_vars

\* A second call returned, after a first call that had rewritten the program
C3_SecondCallReturned ==
    pc = "done" /\ returned = <<TRUE, FALSE>> /\ program # input

\* C4: an assignment executed inside a block mutates the caller's chain: after
\* the if of BlockAssignProgram, x holds the assigned value, and print shows it.
C4_AssignmentInBlockPersists ==
    (input = BlockAssignProgram /\ Ended(before)) =>
        /\ EnvGet(before.st.environment, "x") = Some(Integer(MaxLit))
        /\ before.st.out = <<IntToString(MaxLit)>>

\* C5: the while loop of WhileProgram prints exactly 1, 2, 3 and interpret
\* returns success; the loop of ExitLoopProgram prints 0, 1, 2 and ends.
C5_WhileLoopTerminates ==
    /\ (input = WhileProgram /\ before.sig.kind # "NotRun") =>
          (before.st.out = <<"1", "2", "3">> /\ before.sig = Ok)
    /\ (input = ExitLoopProgram /\ before.sig.kind # "NotRun") =>
          (before.st.out = <<"0", "1", "2">> /\ before.sig = Ok)

\* C6: the closure of CounterProgram keeps its mutations of c from one call
\* to the next: the three calls k() print 1, 2, 3.
C6_ClosureCounter ==
    (input = CounterProgram /\ Ended(before)) =>
        (before.st.out = <<"1", "2", "3">> /\ before.sig = Ok)

\* C7: a function bound with var can call itself by name: FactorialProgram
\* never raises UndefinedVariable and runs to completion.
C7_RecursionByName ==
    \A a \in 1..MaxLit :
        (input = FactorialProgram(a) /\ Ended(before)) =>
            (Outcome(before) # "UndefinedVariable" /\ before.sig = Ok)

\* C8: return e executed inside a while or for loop of a function body
\* reaches the call with its payload: the call yields the value of e.
C8_ReturnInLoopKeepsPayload ==
    \A v \in 1..MaxLit :
        ((input = ReturnInWhileProgram(v) \/ input = ReturnInForProgram(v))
            /\ Ended(before)) =>
                (before.st.out = <<IntToString(v)>> /\ before.sig = Ok)

\* C9: and / or short-circuit: when the left operand decides the result the
\* right operand is not evaluated, so its DivisionByZero does not occur.
C9_ShortCircuit ==
    /\ (input = ShortCircuitProgram("And") /\ Ended(before)) =>
          (before.sig = Ok /\ before.st.out = <<"false">>)
    /\ (input = ShortCircuitProgram("Or") /\ Ended(before)) =>
          (before.sig = Ok /\ before.st.out = <<"true">>)

\* C10: interpret on a fresh interpreter never returns the Return or the Exit
\* signal to its caller.
C10_NoControlSignalEscapes ==
    /\ before.sig.kind \notin {"Return", "Exit"}
    /\ after.sig.kind \notin {"Return", "Exit"}

C12_UndeclaredReferenceReported ==
    \A position \in {"initializer", "target", "value", "condition", "argument",
                     "body", "return"} :
        (input = UndeclaredProgram(position) /\ pc # "check") =>
            \E i \in 1..Len(checker.errors) :
                checker.errors[i] = ErrUsedBeforeDeclaration("q")

\* C13: check reports "already declared" exactly when a var declaration
\* names something already declared in the same scope frame; a declaration
\* of a name that exists only in an outer frame (if branch, loop body,
\* function body) is accepted, and after the nested frame is popped the
\* outer declaration is the one in effect (the arity of the outer function
\* f is the one a later call is checked against).
C13_RedeclarationSameFrameOnly ==
    pc # "check" =>
        /\ input = RedeclareProgram("same") =>
              checker.errors = <<ErrAlreadyDeclaredVariable("x")>>
        /\ input = RedeclareProgram("same_function") =>
              checker.errors = <<ErrAlreadyDeclaredFunction("f")>>
        /\ \A kind \in {"if", "while", "for", "function"} :
              input = RedeclareProgram(kind) => checker.errors = <<>>
        /\ input = RedeclareProgram("restored") =>
              checker.errors = <<ErrArity("f", 1, 0)>>
        /\ input \in ShapePrograms =>
              \A i \in 1..Len(checker.errors) :
                  checker.errors[i] # ErrAlreadyDeclaredVariable("x")

\* check has ended on a redeclaration in the same frame and on one in a
\* nested frame
C13_RedeclarationChecked ==
    /\ pc # "check"
    /\ \/ input = RedeclareProgram("same") /\ Len(checker.errors) = 1
       \/ input = RedeclareProgram("if") /\ Len(checker.errors) = 0

\* C14: a call whose argument count differs from the callee's parameter
\* count never executes the callee body: a direct call through the name of a
\* declared function is rejected by check, and a call through an array or
\* tuple element makes interpret return a RuntimeError.  (A call with the
\* right count passes check and executes the body.)
C14_ArityMismatchNeverRunsBody ==
    \A via \in {"direct", "array", "tuple"}, nargs \in 0..(MaxLit + 1) :
        input = ArityProgram(via, nargs) =>
            IF nargs # 2
            THEN /\ (via = "direct" /\ pc # "check") =>
                        checker.errors = <<ErrArity("f", 2, nargs)>>
                 /\ \A run \in {before, after} :
                        Ended(run) =>
                            (run.st.out = <<>> /\ run.sig = Err("RuntimeError"))
            ELSE /\ pc # "check" => CheckOk(checker)
                 /\ \A run \in {before, after} :
                        Ended(run) => (run.st.out = <<"body", "1">> /\ run.sig = Ok)

\* Calls with one argument too few have been checked and interpreted
C14_MismatchedCallsInterpreted ==
    /\ \E via \in {"direct", "array", "tuple"} : input = ArityProgram(via, 1)
    /\ ~CheckOk(checker) \/ input # ArityProgram("direct", 1)
    /\ Ended(before) /\ before.sig = Err("RuntimeError")

\* C15: array indexing is 1-based: for an array of length n and an integer
\* index k, the index expression yields the k-th element when 1 <= k <= n,
\* and IndexOutOfBounds{index: k, size: n} when k < 1 or k > n.
C15_OneBasedIndexing ==
    \A form \in {"literal", "variable"}, n \in 0..(MaxLit + 1), k \in 0..(MaxLit + 2) :
        (input = IndexProgram(form, n, k) /\ Ended(before)) =>
            IF 1 <= k /\ k <= n
            THEN before.st.out = <<IntToString(10 * k)>> /\ before.sig = Ok
            ELSE before.st.out = <<>> /\ before.sig = IndexOutOfBounds(k, n)

\* The first element, the last element, index 0 and index n + 1 of an array
\* of n >= 2 elements have been evaluated
C15_IndexEvaluated ==
    \E form \in {"literal", "variable"}, n \in 2..(MaxLit + 1) :
      \E k \in {0, 1, n, n + 1} :
        /\ input = IndexProgram(form, n, k)
        /\ Ended(before)
        /\ before.sig.kind \in {"Ok", "Err"}

\* C16: every block and every function call runs in its own frame and the
\* caller's chain is restored when it ends, whatever the outcome (normal end,
\* runtime error, Return or Exit): when interpret returns, the chain is the
\* global frame again, the names declared inside an if branch, loop body or
\* function body (y, z, the loop variable i) are not visible, and the
\* shadowed x has its outer value; a print after the construct shows it.
C16_ScopeRestored ==
    /\ Ended(before) =>
          /\ Len(before.st.environment) = 1
          /\ \A name \in {"z", "i"} :
                input \in ShapePrograms => EnvGet(before.st.environment, name) = NoOpt
    /\ \A kind \in {"if", "while", "for", "function"},
          outcome \in {"normal", "error", "return", "exit"} :
          (input = ScopeProgram(kind, outcome) /\ Ended(before)) =>
              /\ EnvGet(before.st.environment, "x") = Some(Integer(1))
              /\ \A name \in {"y", "i"} : EnvGet(before.st.environment, name) = NoOpt
              /\ before.sig = Ok => before.st.out = <<"2", "1">>
              /\ before.sig # Ok => before.st.out = <<"2">>

\* A block ended by a runtime error, and a call ended by return, have been
\* interpreted
C16_BlockAndCallEnded ==
    /\ Ended(before)
    /\ \/ input = ScopeProgram("if", "error") /\ before.sig = Err("UndefinedVariable")
       \/ input = ScopeProgram("function", "return") /\ before.sig = Ok

\* C17: a division whose right operand evaluates to zero at run time (integer
\* 0 or real 0.0, under an integer or a real left operand) makes interpret
\* return DivisionByZero and print nothing for the statement, before optimize
\* and after optimize has propagated the literal zero into the division; the
\* program passes check.  (With a divisor other than zero the quotient is
\* printed.)
C17_DivisionByZeroAtRunTime ==
    \A l \in {d.l : d \in DivisionOperands}, r \in {d.r : d \in DivisionOperands} :
        input = DivisionProgram(l, r) =>
            /\ pc # "check" => CheckOk(checker)
            /\ \A run \in {before, after} :
                  Ended(run) =>
                      IF r \in {Integer(0), Real(0, 1)}
                      THEN run.sig = Err("DivisionByZero") /\ run.st.out = <<>>
                      ELSE run.sig = Ok /\ Len(run.st.out) = 1
            /\ (l = Integer(10) /\ r = Integer(2) /\ Ended(before)) =>
                  before.st.out = <<"5">>
            /\ (l = Real(5, 2) /\ r = Integer(2) /\ Ended(before)) =>
                  before.st.out = <<"1.25">>
            /\ (l = Integer(10) /\ r = Real(1, 2) /\ Ended(before)) =>
                  before.st.out = <<"20">>

\* optimize has left print 10 / 0, and interpret has run it
C17_PropagatedZeroInterpreted ==
    /\ input = DivisionProgram(Integer(10), Integer(0))
    /\ program = <<PrintStmt(<<Binary(Integer(10), "Div", Integer(0))>>)>>
    /\ Ended(after)
    /\ after.sig = Err("DivisionByZero")

\* C18: every element of a tuple literal can be read by its 1-based position
\* with .k, whether or not the element was given a name: on {a := 1, b := 2,
\* c := 3} and on {1, 2, 3} the accesses .1, .2, .3 succeed and yield 1, 2, 3.
C18_TuplePositionalAccess ==
    \A named \in BOOLEAN, k \in 1..3 :
        (input = TupleAccessProgram(named, k) /\ Ended(before)) =>
            (before.sig = Ok /\ before.st.out = <<IntToString(k)>>)

\* C19: + on two tuple values succeeds and yields a tuple with the fields of
\* both operands: after var t3 := t1 + t2 of TupleConcatProgram the fields a
\* (of t1) and c (of t2) are read from t3 and printed.
C19_TupleConcatenation ==
    (input = TupleConcatProgram /\ Ended(before)) =>
        (before.sig = Ok /\ before.st.out = <<"1", "3">>)

\* C20: optimize removes a top-level var declaration only when its name is
\* referenced nowhere in the input program: when optimize has returned, every
\* top-level declaration of the input whose name the input uses is still
\* declared at the top level of the optimized program.
C20_UsedDeclarationKept ==
    Len(returned) >= 1 =>
        \A i \in 1..Len(input) :
            (input[i].tag = "VarDecl" /\ input[i].name \in collect_used_vars(input)) =>
                \E j \in 1..Len(program) :
                    program[j].tag = "VarDecl" /\ program[j].name = input[i].name

\* C21, as stated: the parser builds expression trees by precedence
\* (multiplicative over additive over relational over and/or/xor, unary over
\* every binary operator) and groups operators of the same level to the
\* left: every source x := u1 2 o1 u2 3 o2 4 is parsed to the assignment of
\* that tree, and not true and false to And(Not(true), false).
C21_PrecedenceAndLeftGrouping ==
    LET Operand(u, n) ==
            CASE u = <<>> -> Integer(n)
              [] u = <<"-">> -> Unary("Neg", Integer(n))
              [] u = <<"not">> -> Unary("Not", Integer(n))
        Op(o) ==
            CASE o = "*" -> "Mul" [] o = "/" -> "Div"
              [] o = "+" -> "Add" [] o = "-" -> "Sub"
              [] o = "<" -> "Lt" [] o = "=" -> "Eq"
              [] o = "and" -> "And" [] o = "or" -> "Or"
              [] o = "xor" -> "Xor"
        Level(o) ==
            CASE o \in {"*", "/"} -> 4
              [] o \in {"+", "-"} -> 3
              [] o \in {"<", "="} -> 2
              [] OTHER -> 1
        Grouped(u1, o1, u2, o2) ==
            IF Level(o1) >= Level(o2)
            THEN Binary(Binary(Operand(u1, 2), Op(o1), Operand(u2, 3)), Op(o2), Integer(4))
            ELSE Binary(Operand(u1, 2), Op(o1), Binary(Operand(u2, 3), Op(o2), Integer(4)))
    IN (pc # "parse" /\ source # <<>>) =>
          /\ \A u1 \in Prefixes, o1 \in Operators, u2 \in Prefixes, o2 \in Operators :
                source = PrecedenceSource(u1, o1, u2, o2) =>
                    input = <<Assign(Ident("x"), Grouped(u1, o1, u2, o2))>>
          /\ source = NotAndSource =>
                input = <<ExprStmt(Binary(Unary("Not", Bool(TRUE)), "And", Bool(FALSE)))>>

\* C21, amended: as above, except that a relational operator does not
\* associate: a source with two relational operators in a row is rejected
\* with a parse error; every other source is parsed to the tree that
\* precedence and grouping to the left give.
C21_PrecedenceRelationNonAssociative ==
    LET Operand(u, n) ==
            CASE u = <<>> -> Integer(n)
              [] u = <<"-">> -> Unary("Neg", Integer(n))
              [] u = <<"not">> -> Unary("Not", Integer(n))
        Op(o) ==
            CASE o = "*" -> "Mul" [] o = "/" -> "Div"
              [] o = "+" -> "Add" [] o = "-" -> "Sub"
              [] o = "<" -> "Lt" [] o = "=" -> "Eq"
              [] o = "and" -> "And" [] o = "or" -> "Or"
              [] o = "xor" -> "Xor"
        Level(o) ==
            CASE o \in {"*", "/"} -> 4
              [] o \in {"+", "-"} -> 3
              [] o \in {"<", "="} -> 2
              [] OTHER -> 1
        Grouped(u1, o1, u2, o2) ==
            IF Level(o1) >= Level(o2)
            THEN Binary(Binary(Operand(u1, 2), Op(o1), Operand(u2, 3)), Op(o2), Integer(4))
            ELSE Binary(Operand(u1, 2), Op(o1), Binary(Operand(u2, 3), Op(o2), Integer(4)))
    IN (pc # "parse" /\ source # <<>>) =>
          /\ \A u1 \in Prefixes, o1 \in Operators, u2 \in Prefixes, o2 \in Operators :
                source = PrecedenceSource(u1, o1, u2, o2) =>
                    IF Level(o1) = 2 /\ Level(o2) = 2
                    THEN pc = "parse_error"
                    ELSE /\ pc # "parse_error"
                         /\ input = <<Assign(Ident("x"), Grouped(u1, o1, u2, o2))>>
          /\ source = NotAndSource =>
                input = <<ExprStmt(Binary(Unary("Not", Bool(TRUE)), "And", Bool(FALSE)))>>

\* x := 2 + 3 * 4 was parsed to Add(2, Mul(3, 4)) and handed to the checker
C21_PrecedenceParsed ==
    /\ source = PrecedenceSource(<<>>, "+", <<>>, "*")
    /\ input = <<Assign(Ident("x"),
                        Binary(Integer(2), "Add", Binary(Integer(3), "Mul", Integer(4))))>>
    /\ pc = "check"

\* C22: e is T, with T one of int, real, bool, string, none, is parsed to
\* IsType{expr: e, type_ind: T} and not to a Binary node with the operator
\* Is, as the condition of an if and as an expression statement.
C22_IsTypeParsed ==
    LET TypeIndicator == ("int" :> "Int") @@ ("real" :> "Real") @@ ("bool" :> "Bool")
                           @@ ("string" :> "String") @@ ("none" :> "None")
        IsType(expr, type_ind) == [tag |-> "IsType", expr |-> expr, type_ind |-> type_ind]
    IN \A type \in DOMAIN TypeIndicator :
          /\ (source = IsTypeSource("if", type) /\ pc # "parse") =>
                /\ pc # "parse_error"
                /\ input = <<If(IsType(Ident("x"), TypeIndicator[type]),
                                <<PrintStmt(<<Ident("x")>>)>>, NoOpt)>>
          /\ (source = IsTypeSource("statement", type) /\ pc # "parse") =>
                /\ pc # "parse_error"
                /\ input = <<ExprStmt(IsType(Ident("x"), TypeIndicator[type]))>>

\* C23: a range lo..hi is parsed as an expression wherever an expression is
\* expected: var range := 1..100 to a VarDecl with the initializer
\* Range(1, 100), process(1..10) to a Call with the argument Range(1, 10),
\* and for i in 1..10 loop print i end to a For with the iterable
\* Range(1, 10).
C23_RangeParsedAsExpression ==
    pc # "parse" =>
        /\ source = RangeSource("var") =>
              /\ pc # "parse_error"
              /\ input = <<VarDecl("range", Range(Integer(1), Integer(100)))>>
        /\ source = RangeSource("call") =>
              /\ pc # "parse_error"
              /\ input = <<ExprStmt(Call(Ident("process"),
                                         <<Range(Integer(1), Integer(10))>>))>>
        /\ source = RangeSource("for") =>
              /\ pc # "parse_error"
              /\ input = <<For("i", Range(Integer(1), Integer(10)),
                               <<PrintStmt(<<Ident("i")>>)>>)>>

C25_AssignedNameNotPropagated ==
    LET constants == collect_constants(input, collect_shadowed_vars(input))
        AssignsX(stmts) == \E i \in 1..Len(stmts) : stmts[i] = Assign(Ident("x"), Integer(MaxLit))
    IN /\ input = AssignedInFunctionProgram =>
             /\ "x" \notin DOMAIN constants
             /\ Len(returned) >= 1 => program[Len(program)] = PrintStmt(<<Ident("x")>>)
       /\ input \in ExprPrograms => "y" \notin DOMAIN constants
       /\ (/\ input \in ShapePrograms
           /\ \/ input[2].tag = "If" /\ AssignsX(input[2].then_branch)
              \/ input[2].tag \in {"While", "For"} /\ AssignsX(input[2].body)) =>
             "x" \notin DOMAIN constants

\* C26: an indexed or member assignment a[i] := v / t.f := v updates the
\* container in the frame that defines the identifier: executed at the top
\* level or inside the branch of an if, the slot reads v right after the
\* assignment and after the block has ended, and the identifier is bound to
\* the updated container in the frame of its declaration.
C26_ContainerAssignmentPersists ==
    \A form \in {"index", "member"}, nested \in BOOLEAN :
        (input = ContainerAssignProgram(form, nested) /\ Ended(before)) =>
            /\ before.sig = Ok
            /\ before.st.out = <<"99", "99">>
            /\ EnvGet(before.st.environment, "a")
                  = Some(IF form = "index" THEN Array(<<Integer(10), Integer(99)>>)
                         ELSE TupleValue("f" :> Integer(99)))

\* C27: constant folding of an operator on two literals of the same kind
\* agrees with the evaluator: for the integer literals of FoldPrograms and
\* + - * / = /= < <= > >=, and for the Boolean literals and and, or, xor,
\* not, optimize leaves print of one literal, which is the value interpret
\* printed for the unfolded expression; the quotient of an integer division
\* is truncated toward zero; a division by the literal 0 is left unfolded
\* and ends the run with DivisionByZero.
C27_FoldingAgreesWithEvaluator ==
    (input \in FoldPrograms /\ Len(returned) >= 1) =>
        LET e == input[1].args[1]
            folded == program[1].args[1]
            Num(x) == IF x.tag = "Unary" THEN -x.expr.n ELSE x.n
            Abs(n) == IF n < 0 THEN -n ELSE n
        IN IF e.tag = "Binary" /\ e.op = "Div" /\ e.right = Integer(0)
           THEN /\ folded = Binary(Integer(Num(e.left)), "Div", Integer(0))
                /\ before.sig = Err("DivisionByZero")
           ELSE /\ Len(program) = 1
                /\ folded.tag \in {"Integer", "Bool"}
                /\ before.sig = Ok
                /\ before.st.out = <<value_to_string(folded)>>
                /\ (e.tag = "Binary" /\ e.op = "Div") =>
                      /\ Abs(folded.n) = Abs(Num(e.left)) \div Abs(Num(e.right))
                      /\ folded.n # 0 => (folded.n > 0 <=> (Num(e.left) > 0) = (Num(e.right) > 0))
                /\ (e.tag = "Binary" /\ e.op \in {"Eq", "Lt", "And", "Xor"}) =>
                      folded.tag = "Bool"

\* optimize folded an inexact quotient of a negative dividend, and both runs
\* printed it
C27_NegativeQuotientFolded ==
    /\ input \in FoldPrograms
    /\ Len(returned) >= 1
    /\ input[1].args[1] = Binary(Unary("Neg", Integer(MaxLit + 1)), "Div", Integer(MaxLit))
    /\ program # input
    /\ Ended(after)
    /\ after.st.out = before.st.out

\* C28: every identity or absorption rewrite of simplify_expr (y + 0, 0 + y,
\* y * 1, 1 * y, y * 0, 0 * y, and the rewrites of and / or with a literal
\* true or false operand) preserves the evaluation for every runtime value
\* of the operand y: the print of the rewritten expression shows the same
\* line and the run ends the same way, with the same runtime error if any.
C28_IdentityRewritesPreserveEvaluation ==
    LET y == Ident("y")
        Rewritten ==
            {Binary(y, "Add", Integer(0)), Binary(Integer(0), "Add", y),
             Binary(y, "Mul", Integer(1)), Binary(Integer(1), "Mul", y),
             Binary(y, "Mul", Integer(0)), Binary(Integer(0), "Mul", y)}
              \cup {Binary(y, op, Bool(b)) : op \in {"And", "Or"}, b \in BOOLEAN}
              \cup {Binary(Bool(b), op, y) : op \in {"And", "Or"}, b \in BOOLEAN}
    IN (/\ input \in ExprPrograms
        /\ input[3].args[1] \in Rewritten
        /\ Ended(before) /\ Ended(after)) =>
          /\ before.st.out = after.st.out
          /\ Outcome(before) = Outcome(after)

\* C29: inside_loop and inside_function are restored when a while, a for or
\* a function call finishes, in whatever way (normal end, Exit, Return, a
\* runtime error in the condition, the iterable, the arguments or the body):
\* interpret starts with both flags false, so they are false again when it
\* has returned, with success or with an error.
C29_FlagsRestored ==
    /\ Ended(before) => (~before.st.inside_loop /\ ~before.st.inside_function)
    /\ Ended(after) => (~after.st.inside_loop /\ ~after.st.inside_function)

\* C30: check is repeatable on one checker instance: called twice in a row
\* with the same program it returns the same result both times, so a program
\* the first call accepts is accepted by the second, and the declarations of
\* the first run leave no trace in the second.
C30_CheckRepeatable ==
    pc \notin {"check", "check_again"} =>
        /\ rechecked.errors = checker.errors
        /\ CheckOk(checker) => CheckOk(rechecked)

====
